---- MODULE Spec2Model ----
(***************************************************************************)
(* OTP authentication and subscription-billing gateway                     *)
(* (src/otp_service/main.py, src/otp_service/payment_service.py).          *)
(*                                                                         *)
(* The relational store is modelled as one set of rows per table, with the *)
(* UNIQUE and FOREIGN KEY constraints the schema declares enforced at      *)
(* flush/commit.  Every HTTP handler is one atomic action (requests are    *)
(* served one at a time); the outcome of every outbound call (proxy,       *)
(* billing provider) is an input of the action, and the calls it makes are *)
(* the `out` field of the handler's result.  Time is counted in            *)
(* minutes.  Rows carry the columns the code reads; the surrogate id and   *)
(* the created_at/updated_at stamps are never read by a handler and are    *)
(* left out.                                                               *)
(***************************************************************************)
EXTENDS Integers, Sequences, FiniteSets, TLC

\* ------------------------------------------------------------------ bounds
MaxTime == 6
MaxOtps == 2
MaxSessions == 1
MaxCustomers == 2
MaxBillingTime == 1

\* ------------------------------------------------------------ input sets
Phones == {"p1", "p2"}
\* otp_code of a request: the two ends of the code space 100000..999999
Codes == {"100000", "999999"}
\* str(random.randint(100000, 999999)): the codes the issuer draws in the model
IssuedCodes == {"100000"}
Services == {"main", "payment"}
PlanType == {"free", "basic", "pro", "premium"}
\* requests.post: a 200 answer, another status, or a raised RequestException
ProxyOutcomes == {"200", "500", "exception"}
\* a call to the billing provider: it returns, or raises a StripeError
StripeCallOutcomes == {"ok", "error"}
\* plan_type and phone_number of a checkout request in the model
CheckoutPlans == {"free", "basic"}
CheckoutPhones == {"p1"}
\* the workers that serve requests at the same time: verify_otp is a plain
\* `def` route, which the framework runs on a pool of threads
Workers == {"w1", "w2"}

\* Python None / SQL NULL, and a present value
None == <<>>
Some(x) == <<x>>

\* timedelta(minutes=m) and timedelta(days=d) in the model's unit (minutes)
timedelta_minutes(m) == m
timedelta_days(d) == d * 24 * 60

OTP_TTL_MINUTES == 5
SUBSCRIPTION_DAYS == 30

\* ------------------------------------------------------ plan configuration
MAIN_PLAN_CONFIGS ==
    [ free    |-> [name |-> "Free", price_usd |-> 0, max_budget |-> None,
                   rpm_limit |-> 2, tpm_limit |-> 1000, max_parallel_requests |-> 1],
      basic   |-> [name |-> "Basic", price_usd |-> 2, max_budget |-> Some(2),
                   rpm_limit |-> 10, tpm_limit |-> 10000, max_parallel_requests |-> 3],
      pro     |-> [name |-> "Pro", price_usd |-> 5, max_budget |-> Some(5),
                   rpm_limit |-> 50, tpm_limit |-> 50000, max_parallel_requests |-> 5],
      premium |-> [name |-> "Premium", price_usd |-> 10, max_budget |-> Some(10),
                   rpm_limit |-> 100, tpm_limit |-> 100000, max_parallel_requests |-> 10] ]

PAYMENT_PLAN_CONFIGS ==
    [ MAIN_PLAN_CONFIGS EXCEPT !.free.max_budget = Some(0) ]

PLAN_CONFIGS(svc) == IF svc = "main" THEN MAIN_PLAN_CONFIGS ELSE PAYMENT_PLAN_CONFIGS

\* A SubscriptionPlan row built from a configuration entry.
SubscriptionPlan(plan_type, config) ==
    [ name |-> plan_type, price_usd |-> config.price_usd,
      max_budget |-> config.max_budget, rpm_limit |-> config.rpm_limit,
      tpm_limit |-> config.tpm_limit,
      max_parallel_requests |-> config.max_parallel_requests ]

\* The catalog after init_subscription_plans() has run on an empty table.
\* main.py seeds at import time, before payment_service can start.
SeededPlans == { SubscriptionPlan(t, MAIN_PLAN_CONFIGS[t]) : t \in PlanType }

\* ------------------------------------------------------------------ state
VARIABLES
    now,        \* datetime.utcnow(), in minutes
    plans,      \* login.subscription_plans
    otps,       \* login.phone_otp
    keys,       \* login.phone_api_keys
    subs,       \* login.user_subscriptions
    txns,       \* login.payment_transactions
    proxy,      \* the upstream proxy's keys and their limits
    customers,  \* number of customers created at the billing provider
    sessions,   \* checkout sessions created at the billing provider
    STRIPE_SECRET_KEY,  \* whether the billing secret is configured
    requests,   \* the verifications being served: each worker's position and locals
    handlers,   \* the webhook each service is serving: its position and locals
    last        \* the last step's request, the status of its response, its calls

vars == <<now, plans, otps, keys, subs, txns, proxy, customers, sessions,
          STRIPE_SECRET_KEY, requests, handlers, last>>

NoRequest == [ op |-> "none", status |-> 0 ]

\* a worker that serves no request
Idle == [ pc |-> "idle" ]

\* ------------------------------------------------------------ row lookups
\* db.query(T).filter_by(...).first(): some matching row, None when there is none
first(rows) == IF rows = {} THEN None ELSE Some(CHOOSE r \in rows : TRUE)

PhoneAPIKey_by_phone(phone_number) ==
    first({ k \in keys : k.phone_number = phone_number })
\* fault variant of the lookup: every key passes for one that was issued
PhoneAPIKey_by_key_unchecked(api_key) ==
    Some([ phone_number |-> "", api_key |-> api_key ])

PhoneAPIKey_by_key(api_key) ==
    first({ k \in keys : k.api_key = api_key })
UserSubscription_by_phone(rows, phone_number) ==
    first({ s \in rows : s.phone_number = phone_number })
SubscriptionPlan_by_name(name) ==
    first({ p \in plans : p.name = name })

\* ------------------------------------------------------------ constraints
\* fault variant of the constraint: phone_number is not unique
key_insert_unconstrained(keyRows, phone_number) == TRUE

\* phone_api_keys.phone_number is UNIQUE: an INSERT for a phone that has a row fails
key_insert_ok(keyRows, phone_number) ==
    \A k \in keyRows : k.phone_number # phone_number
\* user_subscriptions.phone_number is UNIQUE and
\* REFERENCES login.phone_api_keys.phone_number: an INSERT fails for a phone that
\* has a subscription row already, and for a phone that has no key row
sub_insert_ok(subRows, keyRows, phone_number) ==
    /\ \A s \in subRows : s.phone_number # phone_number
    /\ \E k \in keyRows : k.phone_number = phone_number
\* payment_transactions.stripe_payment_intent_id is UNIQUE (NULLs never collide)
txn_intent_ok(txnRows, intent) ==
    intent = None \/ \A t \in txnRows : t.stripe_payment_intent_id # intent

\* ------------------------------------------------------------------- proxy
\* fault variant of the endpoint: one key per alias, a second call for an alias
\* is answered with the key the alias has
proxy_key_generate_per_alias(proxyRows, payload) ==
    LET held == { x \in proxyRows : x.key_alias = payload.key_alias }
    IN  IF held # {} THEN CHOOSE x \in held : TRUE
        ELSE [ key |-> Cardinality(proxyRows) + 1,
               key_alias |-> payload.key_alias,
               max_budget |-> IF "max_budget" \in DOMAIN payload
                              THEN payload.max_budget ELSE None,
               budget_duration |-> payload.budget_duration,
               max_parallel_requests |-> payload.max_parallel_requests,
               tpm_limit |-> payload.tpm_limit,
               rpm_limit |-> payload.rpm_limit ]

\* POST {proxy}/key/generate answered 200: the proxy mints a key that carries the
\* limits of the payload; a payload without max_budget, or with null, is unlimited
proxy_key_generate(proxyRows, payload) ==
    [ key |-> Cardinality(proxyRows) + 1,
      key_alias |-> payload.key_alias,
      max_budget |-> IF "max_budget" \in DOMAIN payload THEN payload.max_budget ELSE None,
      budget_duration |-> payload.budget_duration,
      max_parallel_requests |-> payload.max_parallel_requests,
      tpm_limit |-> payload.tpm_limit,
      rpm_limit |-> payload.rpm_limit ]

\* ------------------------------------------------------------- OTP issuer
\* expires = datetime.utcnow() + timedelta(minutes=5)
otp_expires(t) == t + timedelta_minutes(OTP_TTL_MINUTES)

PhoneOTP(phone_number, otp_code, expires_at) ==
    [ phone_number |-> phone_number, otp_code |-> otp_code, expires_at |-> expires_at ]

\* POST /send-otp
send_otp(phone_number, otp) ==
    /\ Cardinality(otps) < MaxOtps
    /\ otps' = otps \cup { PhoneOTP(phone_number, otp, otp_expires(now)) }
    /\ last' = [ op |-> "send_otp", status |-> 200 ]
    /\ UNCHANGED <<now, plans, keys, subs, txns, proxy, customers, sessions,
                   STRIPE_SECRET_KEY, requests, handlers>>

\* fault variant of the filter: a challenge is still accepted at its expiry instant
otp_matches_inclusive(o, phone_number, otp_code, t) ==
    /\ o.phone_number = phone_number
    /\ o.otp_code = otp_code
    /\ o.expires_at >= t

\* fault variant of the filter: the phone of the challenge is not compared
otp_matches_any_phone(o, phone_number, otp_code, t) ==
    /\ o.otp_code = otp_code
    /\ o.expires_at > t

\* the filter of the challenge query: phone, code and expires_at > utcnow()
otp_matches(o, phone_number, otp_code, t) ==
    /\ o.phone_number = phone_number
    /\ o.otp_code = otp_code
    /\ o.expires_at > t

otp_entry(phone_number, otp_code) ==
    first({ o \in otps : otp_matches(o, phone_number, otp_code, now) })

\* --------------------------------------------------------- key provisioner
PhoneAPIKey(phone_number, api_key) ==
    [ phone_number |-> phone_number, api_key |-> api_key ]

\* UserSubscription(...): columns not passed to the constructor are NULL, is_active
\* defaults to True; plan is the name of the plan row plan_id points to
UserSubscription(phone_number, plan, stripe_customer_id) ==
    [ phone_number |-> phone_number, plan |-> plan,
      stripe_customer_id |-> stripe_customer_id, stripe_subscription_id |-> None,
      is_active |-> TRUE, expires_at |-> None ]

\* plan_config of verify_otp: the catalog's free row, else PLAN_CONFIGS[PlanType.FREE]
verify_plan_config(free_plan) ==
    IF free_plan = None
    THEN [ max_budget |-> MAIN_PLAN_CONFIGS.free.max_budget,
           max_parallel_requests |-> MAIN_PLAN_CONFIGS.free.max_parallel_requests,
           tpm_limit |-> MAIN_PLAN_CONFIGS.free.tpm_limit,
           rpm_limit |-> MAIN_PLAN_CONFIGS.free.rpm_limit ]
    ELSE [ max_budget |-> free_plan[1].max_budget,
           max_parallel_requests |-> free_plan[1].max_parallel_requests,
           tpm_limit |-> free_plan[1].tpm_limit,
           rpm_limit |-> free_plan[1].rpm_limit ]

\* the key/generate payload of the first attempt: max_budget only when not None
generate_payload(phone_number, plan_config) ==
    LET base == [ key_alias |-> phone_number, budget_duration |-> "30d",
                  max_parallel_requests |-> plan_config.max_parallel_requests,
                  tpm_limit |-> plan_config.tpm_limit,
                  rpm_limit |-> plan_config.rpm_limit ]
    IN  IF plan_config.max_budget # None
        THEN [ key_alias |-> base.key_alias, budget_duration |-> base.budget_duration,
               max_parallel_requests |-> base.max_parallel_requests,
               tpm_limit |-> base.tpm_limit, rpm_limit |-> base.rpm_limit,
               max_budget |-> plan_config.max_budget ]
        ELSE base

\* the key/generate payload of the second attempt (hardcoded)
retry_generate_payload(phone_number) ==
    [ key_alias |-> phone_number, budget_duration |-> "30d", max_budget |-> None,
      max_parallel_requests |-> 3, tpm_limit |-> 30000, rpm_limit |-> 2 ]

GenerateCall(payload) == [ api |-> "key/generate", payload |-> payload ]

\* fault variant of the lookup: the first attempt never finds the stored key
stored_api_key_missed(phone_number) == None

\* api_key_entry of the first attempt: the phone's stored key row, if any
stored_api_key(phone_number) == PhoneAPIKey_by_phone(phone_number)

\* The body of the outer try of verify_otp.  raised = TRUE: an exception (the
\* HTTPException of a rejected code or of a failed key creation, a request
\* exception, an IntegrityError at commit) left the block and is caught by
\* `except Exception`; nothing was committed.
verify_otp_try(phone_number, otp_code, r1) ==
    LET otp == otp_entry(phone_number, otp_code)
        api_key_entry == stored_api_key(phone_number)
        free_plan == SubscriptionPlan_by_name("free")
        payload == generate_payload(phone_number, verify_plan_config(free_plan))
        minted == proxy_key_generate(proxy, payload)
        keys1 == keys \cup { PhoneAPIKey(phone_number, minted.key) }
        subs1 == IF free_plan # None
                 THEN subs \cup { UserSubscription(phone_number, free_plan[1].name, None) }
                 ELSE subs
        commit_ok == /\ key_insert_ok(keys, phone_number)
                     /\ free_plan # None => sub_insert_ok(subs, keys1, phone_number)
        same == [ raised |-> FALSE, cause |-> "", keys |-> keys, subs |-> subs,
                  proxy |-> proxy, out |-> <<>>, api_key |-> None ]
    IN  IF otp = None
        THEN [ same EXCEPT !.raised = TRUE, !.cause = "Invalid or expired OTP" ]
        ELSE IF api_key_entry # None
        THEN [ same EXCEPT !.raised = FALSE, !.cause = "",
                           !.api_key = Some(api_key_entry[1].api_key) ]
        ELSE IF r1 # "200"
        THEN [ same EXCEPT !.raised = TRUE, !.out = << GenerateCall(payload) >>,
                           !.cause = IF r1 = "exception" THEN "RequestException"
                                     ELSE "Failed to create LiteLLM key" ]
        ELSE IF ~commit_ok
        THEN [ same EXCEPT !.raised = TRUE, !.cause = "IntegrityError",
                           !.proxy = proxy \cup { minted },
                           !.out = << GenerateCall(payload) >> ]
        ELSE [ raised |-> FALSE, cause |-> "", keys |-> keys1, subs |-> subs1,
               proxy |-> proxy \cup { minted }, out |-> << GenerateCall(payload) >>,
               api_key |-> Some(minted.key) ]

\* The body of `except Exception as e` of verify_otp, entered with what the first
\* attempt left behind at the proxy (nothing of it was committed to the store).
\* Every exception raised in here, the HTTPException of a rejected code
\* included, is caught by `except Exception as retry_e` and answered with
\* status 500, "Database error: {retry_e}".
verify_otp_retry(phone_number, otp_code, r2, proxy1, out1) ==
    LET otp == otp_entry(phone_number, otp_code)
        api_key_entry == PhoneAPIKey_by_phone(phone_number)
        payload == retry_generate_payload(phone_number)
        minted == proxy_key_generate(proxy1, payload)
        failed == [ status |-> 500, detail |-> "Database error", cause |-> "",
                    keys |-> keys, subs |-> subs, proxy |-> proxy1, out |-> out1,
                    api_key |-> None ]
    IN  IF otp = None
        THEN [ failed EXCEPT !.cause = "Invalid or expired OTP" ]
        ELSE IF api_key_entry # None
        THEN [ failed EXCEPT !.status = 200, !.detail = "",
                             !.api_key = Some(api_key_entry[1].api_key) ]
        ELSE IF r2 # "200"
        THEN [ failed EXCEPT !.out = Append(out1, GenerateCall(payload)),
                             !.cause = IF r2 = "exception" THEN "RequestException"
                                       ELSE "Failed to create LiteLLM key" ]
        ELSE IF ~key_insert_ok(keys, phone_number)
        THEN [ failed EXCEPT !.cause = "IntegrityError",
                             !.proxy = proxy1 \cup { minted },
                             !.out = Append(out1, GenerateCall(payload)) ]
        ELSE [ status |-> 200, detail |-> "", cause |-> "",
               keys |-> keys \cup { PhoneAPIKey(phone_number, minted.key) },
               subs |-> subs, proxy |-> proxy1 \cup { minted },
               out |-> Append(out1, GenerateCall(payload)),
               api_key |-> Some(minted.key) ]

\* What POST /verify-otp does for a request, given the outcomes r1, r2 of the
\* key/generate calls it may make.  The two database sessions see the same clock.
verify_otp_result(phone_number, otp_code, r1, r2) ==
    LET t == verify_otp_try(phone_number, otp_code, r1)
    IN  IF t.raised
        THEN verify_otp_retry(phone_number, otp_code, r2, t.proxy, t.out)
        ELSE [ status |-> 200, detail |-> "", cause |-> "", keys |-> t.keys,
               subs |-> t.subs, proxy |-> t.proxy, out |-> t.out,
               api_key |-> t.api_key ]

\* fault variant of the handler: a challenge is deleted once it has been verified
verify_otp_consuming(phone_number, otp_code, r1, r2) ==
    \E r \in { verify_otp_result(phone_number, otp_code, r1, r2) } :
        /\ keys' = r.keys
        /\ subs' = r.subs
        /\ proxy' = r.proxy
        /\ otps' = IF r.status = 200
                   THEN { o \in otps : ~otp_matches(o, phone_number, otp_code, now) }
                   ELSE otps
        /\ last' = [ op |-> "verify_otp", status |-> r.status,
                     phone_number |-> phone_number, otp_code |-> otp_code,
                     calls |-> Len(r.out) ]
        /\ UNCHANGED <<now, plans, txns, customers, sessions, STRIPE_SECRET_KEY,
                       requests, handlers>>

\* POST /verify-otp, the proxy answering the key/generate calls with r1 and r2
verify_otp(phone_number, otp_code, r1, r2) ==
    \E r \in { verify_otp_result(phone_number, otp_code, r1, r2) } :
        /\ keys' = r.keys
        /\ subs' = r.subs
        /\ proxy' = r.proxy
        /\ last' = [ op |-> "verify_otp", status |-> r.status,
                     phone_number |-> phone_number, otp_code |-> otp_code,
                     calls |-> Len(r.out) ]
        /\ UNCHANGED <<now, plans, otps, txns, customers, sessions,
                       STRIPE_SECRET_KEY, requests, handlers>>

\* ------------------------------------------------------------- spend logs
SpendLogsCall(api_key) == [ api |-> "spend/logs", api_key |-> api_key ]

\* requests.get(f"{LITELLM_URL}/spend/logs"): an answer with a status, or a
\* raised RequestException
SpendLogsOutcomes ==
    { [ kind |-> "response", status |-> st ] : st \in { 200, 401, 500 } }
    \cup { [ kind |-> "exception", status |-> 0 ] }

\* the api_key query parameter: absent, a key nobody was issued, a minted key
SpendLogsKeys == { None, Some(0), Some(1), Some(2) }

\* GET /spend/logs.  `except HTTPException: raise` lets the 400, the 404 and the
\* upstream's status through; anything else raised is answered 500.
get_spend_logs_result(api_key, upstream) ==
    LET existing_key == PhoneAPIKey_by_key(api_key[1])
    IN  IF api_key = None
        THEN [ status |-> 400, detail |-> "api_key is required", out |-> <<>> ]
        ELSE IF existing_key = None
        THEN [ status |-> 404, detail |-> "api_key not found", out |-> <<>> ]
        ELSE IF upstream.kind = "exception"
        THEN [ status |-> 500, detail |-> "Error retrieving spend logs",
               out |-> << SpendLogsCall(api_key[1]) >> ]
        ELSE IF upstream.status # 200
        THEN [ status |-> upstream.status, detail |-> "Failed to fetch logs",
               out |-> << SpendLogsCall(api_key[1]) >> ]
        ELSE [ status |-> 200, detail |-> "", out |-> << SpendLogsCall(api_key[1]) >> ]

get_spend_logs(api_key, upstream) ==
    \E r \in { get_spend_logs_result(api_key, upstream) } :
        /\ last' = [ op |-> "get_spend_logs", status |-> r.status,
                     calls |-> Len(r.out) ]
        /\ UNCHANGED <<now, plans, otps, keys, subs, txns, proxy, customers,
                       sessions, STRIPE_SECRET_KEY, requests, handlers>>

\* ---------------------------------------------------- subscription manager
\* GET /subscription/{phone_number} (the same code in both modules).  The handler
\* catches nothing: an AttributeError on a missing free plan and an
\* IntegrityError at commit are answered 500 by the framework.
get_user_subscription_result(phone_number) ==
    LET subscription == UserSubscription_by_phone(subs, phone_number)
        free_plan == SubscriptionPlan_by_name("free")
        created == UserSubscription(phone_number, "free", None)
    IN  IF subscription # None
        THEN [ status |-> 200, subs |-> subs, subscription |-> subscription ]
        ELSE IF free_plan = None
        THEN [ status |-> 500, subs |-> subs, subscription |-> None ]
        ELSE IF ~sub_insert_ok(subs, keys, phone_number)
        THEN [ status |-> 500, subs |-> subs, subscription |-> None ]
        ELSE [ status |-> 200, subs |-> subs \cup { created },
               subscription |-> Some(created) ]

get_user_subscription(phone_number) ==
    \E r \in { get_user_subscription_result(phone_number) } :
        /\ subs' = r.subs
        /\ last' = [ op |-> "get_user_subscription", status |-> r.status ]
        /\ UNCHANGED <<now, plans, otps, keys, txns, proxy, customers, sessions,
                       STRIPE_SECRET_KEY, requests, handlers>>

\* ------------------------------------------------- proxy limit synchronizer
\* POST {proxy}/key/update answered 200: the proxy overwrites, on the key named in
\* the payload, exactly the fields the payload carries
proxy_key_update(proxyRows, payload) ==
    { IF r.key # payload.key THEN r
      ELSE [ r EXCEPT !.budget_duration = payload.budget_duration,
                      !.max_parallel_requests = payload.max_parallel_requests,
                      !.tpm_limit = payload.tpm_limit,
                      !.rpm_limit = payload.rpm_limit,
                      !.max_budget = IF "max_budget" \in DOMAIN payload
                                     THEN payload.max_budget ELSE @ ]
      : r \in proxyRows }

\* the key/update payload: main.py adds max_budget only when it is not None,
\* payment_service.py always sends it
update_payload(svc, api_key, plan_config) ==
    IF svc = "main" /\ plan_config.max_budget = None
    THEN [ key |-> api_key, budget_duration |-> "30d",
           max_parallel_requests |-> plan_config.max_parallel_requests,
           tpm_limit |-> plan_config.tpm_limit, rpm_limit |-> plan_config.rpm_limit ]
    ELSE [ key |-> api_key, budget_duration |-> "30d",
           max_parallel_requests |-> plan_config.max_parallel_requests,
           tpm_limit |-> plan_config.tpm_limit, rpm_limit |-> plan_config.rpm_limit,
           max_budget |-> plan_config.max_budget ]

UpdateCall(payload) == [ api |-> "key/update", payload |-> payload ]

\* fault variant of the push: any answer of the proxy counts as success
update_litellm_api_key_any_answer(svc, phone_number, plan_config, flush_ok, proxyRows, ru) ==
    LET api_key_entry == PhoneAPIKey_by_phone(phone_number)
        payload == update_payload(svc, api_key_entry[1].api_key, plan_config)
    IN  IF ~flush_ok \/ api_key_entry = None
        THEN [ success |-> FALSE, proxy |-> proxyRows, out |-> <<>> ]
        ELSE [ success |-> ru # "exception",
               proxy |-> IF ru = "200" THEN proxy_key_update(proxyRows, payload)
                         ELSE proxyRows,
               out |-> << UpdateCall(payload) >> ]

\* update_litellm_api_key(phone_number, plan_config, db).  flush_ok: whether the
\* autoflush that precedes the key query succeeds; when it raises, the function
\* catches the error and returns False, and the session is left rolled back.
\* ru is the outcome of the key/update call.
update_litellm_api_key(svc, phone_number, plan_config, flush_ok, proxyRows, ru) ==
    LET api_key_entry == PhoneAPIKey_by_phone(phone_number)
        payload == update_payload(svc, api_key_entry[1].api_key, plan_config)
    IN  IF ~flush_ok \/ api_key_entry = None
        THEN [ success |-> FALSE, proxy |-> proxyRows, out |-> <<>> ]
        ELSE [ success |-> ru = "200",
               proxy |-> IF ru = "200" THEN proxy_key_update(proxyRows, payload)
                         ELSE proxyRows,
               out |-> << UpdateCall(payload) >> ]

\* ---------------------------------------------------------- billing bridge
CustomerCreateCall(phone_number) ==
    [ api |-> "stripe.Customer.create", phone_number |-> phone_number ]
SessionCreateCall(customer, phone_number, plan_type, unit_amount) ==
    [ api |-> "stripe.checkout.Session.create", customer |-> customer,
      phone_number |-> phone_number, plan_type |-> plan_type,
      unit_amount |-> unit_amount ]

\* get_or_create_stripe_customer: the id cached on the phone's subscription row,
\* None when a customer has to be created
cached_stripe_customer(phone_number) ==
    LET subscription == UserSubscription_by_phone(subs, phone_number)
    IN  IF subscription # None /\ subscription[1].stripe_customer_id # None
        THEN subscription[1].stripe_customer_id
        ELSE None

PaymentTransaction(phone_number, stripe_session_id, amount_usd, plan_name) ==
    [ phone_number |-> phone_number, stripe_session_id |-> stripe_session_id,
      stripe_payment_intent_id |-> Some(""), amount_usd |-> amount_usd,
      plan_name |-> plan_name, status |-> "pending" ]

\* the checkout session the billing provider creates
CheckoutSession(id, customer, phone_number, plan_type) ==
    [ id |-> id, customer |-> customer,
      metadata |-> [ phone_number |-> phone_number, plan_type |-> plan_type ],
      subscription |-> Some(id), payment_intent |-> None ]

\* POST /create-checkout-session.  sc and ss are the outcomes ("ok" or "error", a
\* StripeError) of the customer and the session creation.  An HTTPException
\* raised inside the try is caught by `except Exception` and answered 500.
create_checkout_session_result(svc, phone_number, plan_type, sc, ss) ==
    LET plan == SubscriptionPlan_by_name(plan_type)
        cached == cached_stripe_customer(phone_number)
        customer_id == IF cached # None THEN cached[1] ELSE customers + 1
        customers1 == IF cached # None THEN customers ELSE customers + 1
        calls1 == IF cached # None THEN <<>> ELSE << CustomerCreateCall(phone_number) >>
        session == CheckoutSession(Cardinality(sessions) + 1, customer_id,
                                   phone_number, plan_type)
        calls2 == Append(calls1, SessionCreateCall(customer_id, phone_number, plan_type,
                                                   plan[1].price_usd * 100))
        transaction == PaymentTransaction(phone_number, session.id,
                                          plan[1].price_usd, plan[1].name)
        same == [ status |-> 500, detail |-> "Error creating checkout", cause |-> "",
                  checkout_url |-> None, session_id |-> None, txns |-> txns,
                  customers |-> customers, sessions |-> sessions, out |-> <<>> ]
    IN  IF svc = "main" /\ ~STRIPE_SECRET_KEY
        THEN [ same EXCEPT !.status = 200, !.detail = "Mock response",
                           !.checkout_url = Some("mock-payment"),
                           !.session_id = Some("cs_mock_123") ]
        ELSE IF plan_type = "free"
        THEN [ same EXCEPT !.cause = "Cannot create checkout for free plan" ]
        ELSE IF plan = None
        THEN [ same EXCEPT !.cause = "Plan not found" ]
        ELSE IF cached = None /\ sc # "ok"
        THEN [ same EXCEPT !.status = 400, !.detail = "Stripe error", !.out = calls1 ]
        ELSE IF ss # "ok"
        THEN [ same EXCEPT !.status = 400, !.detail = "Stripe error",
                           !.customers = customers1, !.out = calls2 ]
        ELSE IF ~txn_intent_ok(txns, transaction.stripe_payment_intent_id)
        THEN [ same EXCEPT !.cause = "IntegrityError", !.customers = customers1,
                           !.sessions = sessions \cup { session }, !.out = calls2 ]
        ELSE [ status |-> 200, detail |-> "", cause |-> "",
               checkout_url |-> Some("checkout"), session_id |-> Some(session.id),
               txns |-> txns \cup { transaction }, customers |-> customers1,
               sessions |-> sessions \cup { session }, out |-> calls2 ]

create_checkout_session(svc, phone_number, plan_type, sc, ss) ==
    \E r \in { create_checkout_session_result(svc, phone_number, plan_type, sc, ss) } :
        /\ r.customers <= MaxCustomers
        /\ Cardinality(r.sessions) <= MaxSessions
        /\ txns' = r.txns
        /\ customers' = r.customers
        /\ sessions' = r.sessions
        /\ last' = [ op |-> "create_checkout_session", status |-> r.status ]
        /\ UNCHANGED <<now, plans, otps, keys, subs, proxy, STRIPE_SECRET_KEY,
                       requests, handlers>>

\* fault variant of the period: thirty-one days
subscription_expires_long(t) == t + timedelta_days(SUBSCRIPTION_DAYS + 1)

\* subscription.expires_at = datetime.utcnow() + timedelta(days=30)
subscription_expires(t) == t + timedelta_days(SUBSCRIPTION_DAYS)

\* fault variant of the handler: the limits are pushed before the customer of a
\* new row is created, so that a failure of the creation follows the push
handle_successful_payment_pushing_first(svc, session, sc, ru) ==
    LET phone_number == session.metadata.phone_number
        plan_type == session.metadata.plan_type
        plan == SubscriptionPlan_by_name(plan_type)
        transaction == first({ t \in txns : t.stripe_session_id = session.id })
        txns1 == IF transaction = None THEN txns
                 ELSE (txns \ { transaction[1] }) \cup
                      { [ transaction[1] EXCEPT
                            !.status = "succeeded",
                            !.stripe_payment_intent_id = session.payment_intent ] }
        subscription == UserSubscription_by_phone(subs, phone_number)
        creating == subscription = None
        customers1 == IF creating THEN customers + 1 ELSE customers
        calls1 == IF creating THEN << CustomerCreateCall(phone_number) >> ELSE <<>>
        row0 == IF creating
                THEN UserSubscription(phone_number, plan[1].name, Some(customers + 1))
                ELSE subscription[1]
        row1 == [ row0 EXCEPT !.plan = plan[1].name,
                              !.stripe_subscription_id = session.subscription,
                              !.is_active = TRUE,
                              !.expires_at = Some(now + timedelta_days(SUBSCRIPTION_DAYS)) ]
        subs1 == IF creating THEN subs \cup { row1 }
                 ELSE (subs \ { subscription[1] }) \cup { row1 }
        sub_flush_ok == creating => sub_insert_ok(subs, keys, phone_number)
        push == update_litellm_api_key(svc, phone_number, PLAN_CONFIGS(svc)[plan_type],
                                       TRUE, proxy, ru)
        same == [ committed |-> FALSE, update_success |-> FALSE, error |-> "",
                  subs |-> subs, txns |-> txns, proxy |-> proxy,
                  customers |-> customers, out |-> <<>> ]
    IN  IF plan = None
        THEN [ same EXCEPT !.error = "Plan not found" ]
        ELSE IF creating /\ sc # "ok"
        THEN [ same EXCEPT !.error = "StripeError", !.proxy = push.proxy,
                           !.out = push.out \o calls1 ]
        ELSE IF ~sub_flush_ok
        THEN [ same EXCEPT !.error = "IntegrityError", !.customers = customers1,
                           !.proxy = push.proxy, !.out = push.out \o calls1 ]
        ELSE [ committed |-> TRUE, update_success |-> push.success, error |-> "",
               subs |-> subs1, txns |-> txns1, proxy |-> push.proxy,
               customers |-> customers1, out |-> push.out \o calls1 ]

\* handle_successful_payment(session, db).  sc: outcome of the customer creation,
\* ru: outcome of the key/update call.  Everything raised inside is caught,
\* logged and followed by db.rollback().
handle_successful_payment(svc, session, sc, ru) ==
    LET phone_number == session.metadata.phone_number
        plan_type == session.metadata.plan_type
        plan == SubscriptionPlan_by_name(plan_type)
        transaction == first({ t \in txns : t.stripe_session_id = session.id })
        txns1 == IF transaction = None THEN txns
                 ELSE (txns \ { transaction[1] }) \cup
                      { [ transaction[1] EXCEPT
                            !.status = "succeeded",
                            !.stripe_payment_intent_id = session.payment_intent ] }
        txn_flush_ok == transaction = None
                        \/ txn_intent_ok(txns \ { transaction[1] }, session.payment_intent)
        subscription == UserSubscription_by_phone(subs, phone_number)
        creating == subscription = None
        customers1 == IF creating THEN customers + 1 ELSE customers
        calls1 == IF creating THEN << CustomerCreateCall(phone_number) >> ELSE <<>>
        row0 == IF creating
                THEN UserSubscription(phone_number, plan[1].name, Some(customers + 1))
                ELSE subscription[1]
        row1 == [ row0 EXCEPT !.plan = plan[1].name,
                              !.stripe_subscription_id = session.subscription,
                              !.is_active = TRUE,
                              !.expires_at = Some(subscription_expires(now)) ]
        subs1 == IF creating THEN subs \cup { row1 }
                 ELSE (subs \ { subscription[1] }) \cup { row1 }
        sub_flush_ok == creating => sub_insert_ok(subs, keys, phone_number)
        push == update_litellm_api_key(svc, phone_number, PLAN_CONFIGS(svc)[plan_type],
                                       sub_flush_ok, proxy, ru)
        same == [ committed |-> FALSE, update_success |-> FALSE, error |-> "",
                  subs |-> subs, txns |-> txns, proxy |-> proxy,
                  customers |-> customers, out |-> <<>> ]
    IN  IF plan = None
        THEN [ same EXCEPT !.error = "Plan not found" ]
        ELSE IF ~txn_flush_ok
        THEN [ same EXCEPT !.error = "IntegrityError" ]
        ELSE IF creating /\ sc # "ok"
        THEN [ same EXCEPT !.error = "StripeError", !.out = calls1 ]
        ELSE IF ~sub_flush_ok
        THEN [ same EXCEPT !.error = "IntegrityError", !.customers = customers1,
                           !.out = calls1 ]
        ELSE [ committed |-> TRUE, update_success |-> push.success, error |-> "",
               subs |-> subs1, txns |-> txns1, proxy |-> push.proxy,
               customers |-> customers1, out |-> calls1 \o push.out ]

\* handle_subscription_renewal(invoice, db)
handle_subscription_renewal(invoice) ==
    LET subscription ==
            first({ u \in subs : u.stripe_customer_id = Some(invoice.customer) })
        row1 == [ subscription[1] EXCEPT !.expires_at = Some(subscription_expires(now)),
                                         !.is_active = TRUE ]
    IN  IF subscription = None
        THEN [ committed |-> FALSE, update_success |-> FALSE, error |-> "",
               subs |-> subs,
               txns |-> txns, proxy |-> proxy, customers |-> customers, out |-> <<>> ]
        ELSE [ committed |-> TRUE, update_success |-> FALSE, error |-> "",
               subs |-> (subs \ { subscription[1] }) \cup { row1 },
               txns |-> txns, proxy |-> proxy, customers |-> customers, out |-> <<>> ]

\* fault variant of the cancellation: the plan is reset, the expiry is kept
handle_subscription_canceled_keeping_expiry(svc, stripe_subscription, ru) ==
    LET subscription ==
            first({ u \in subs : u.stripe_subscription_id = Some(stripe_subscription.id) })
        free_plan == SubscriptionPlan_by_name("free")
        row1 == [ subscription[1] EXCEPT !.plan = free_plan[1].name,
                                         !.is_active = TRUE,
                                         !.stripe_subscription_id = None ]
        push == update_litellm_api_key(svc, subscription[1].phone_number,
                                       PLAN_CONFIGS(svc).free, TRUE, proxy, ru)
    IN  IF subscription = None \/ free_plan = None
        THEN [ committed |-> FALSE, update_success |-> FALSE,
               error |-> IF subscription = None THEN "" ELSE "AttributeError",
               subs |-> subs,
               txns |-> txns, proxy |-> proxy, customers |-> customers,
               out |-> <<>> ]
        ELSE [ committed |-> TRUE, update_success |-> push.success, error |-> "",
               subs |-> (subs \ { subscription[1] }) \cup { row1 },
               txns |-> txns, proxy |-> push.proxy, customers |-> customers,
               out |-> push.out ]

\* handle_subscription_canceled(stripe_subscription, db).  ru: outcome of the
\* key/update call.  A missing free plan raises AttributeError, which is caught.
handle_subscription_canceled(svc, stripe_subscription, ru) ==
    LET subscription ==
            first({ u \in subs : u.stripe_subscription_id = Some(stripe_subscription.id) })
        free_plan == SubscriptionPlan_by_name("free")
        row1 == [ subscription[1] EXCEPT !.plan = free_plan[1].name,
                                         !.is_active = TRUE,
                                         !.expires_at = None,
                                         !.stripe_subscription_id = None ]
        push == update_litellm_api_key(svc, subscription[1].phone_number,
                                       PLAN_CONFIGS(svc).free, TRUE, proxy, ru)
        same == [ committed |-> FALSE, update_success |-> FALSE, error |-> "",
                  subs |-> subs, txns |-> txns, proxy |-> proxy,
                  customers |-> customers, out |-> <<>> ]
    IN  IF subscription = None
        THEN same
        ELSE IF free_plan = None
        THEN [ same EXCEPT !.error = "AttributeError" ]
        ELSE [ committed |-> TRUE, update_success |-> push.success, error |-> "",
               subs |-> (subs \ { subscription[1] }) \cup { row1 },
               txns |-> txns, proxy |-> push.proxy, customers |-> customers,
               out |-> push.out ]

\* fault variant of the handlers' except clause: what was caught is raised again
handler_reraises(error) == error \notin { "", "Plan not found" }

\* `except Exception as e: print(...)` of the three event handlers: whether an
\* error met inside a handler leaves it.  A missing plan is a plain return.
handler_raises(error) == FALSE

\* the events the billing provider signs
EventTypes == { "checkout.session.completed", "invoice.payment_succeeded",
                "customer.subscription.deleted", "customer.created" }
\* stripe.Webhook.construct_event: the event, or a ValueError (payload), or a
\* SignatureVerificationError (signature)
VerificationOutcomes == { "ok", "ValueError", "SignatureVerificationError" }

\* no handler ran: nothing written, nothing called
not_handled ==
    [ committed |-> FALSE, update_success |-> FALSE, error |-> "",
      subs |-> subs, txns |-> txns, proxy |-> proxy,
      customers |-> customers, out |-> <<>> ]

\* fault variant of the dispatch: a type without a handler is an error
dispatch_strict(svc, event, sc, ru) ==
    IF event.type = "checkout.session.completed"
    THEN handle_successful_payment(svc, event.object, sc, ru)
    ELSE IF event.type = "invoice.payment_succeeded"
    THEN handle_subscription_renewal(event.object)
    ELSE IF event.type = "customer.subscription.deleted"
    THEN handle_subscription_canceled(svc, event.object, ru)
    ELSE [ not_handled EXCEPT !.error = "Unhandled event type" ]

\* the if/elif chain on event['type']: a type that has no branch runs nothing
dispatch(svc, event, sc, ru) ==
    IF event.type = "checkout.session.completed"
    THEN handle_successful_payment(svc, event.object, sc, ru)
    ELSE IF event.type = "invoice.payment_succeeded"
    THEN handle_subscription_renewal(event.object)
    ELSE IF event.type = "customer.subscription.deleted"
    THEN handle_subscription_canceled(svc, event.object, ru)
    ELSE not_handled

\* POST /webhook.  The HTTPException(400) of a failed verification is raised
\* inside the outer try and caught by its `except Exception`, which answers 500.
stripe_webhook_result(svc, verification, event, sc, ru) ==
    LET same == not_handled
        handled == dispatch(svc, event, sc, ru)
    IN  IF verification # "ok"
        THEN [ status |-> 500, detail |-> "Webhook processing failed",
               cause |-> IF verification = "ValueError" THEN "Invalid payload"
                         ELSE "Invalid signature",
               dispatched |-> FALSE, handler |-> same ]
        ELSE IF handler_raises(handled.error)
        THEN [ status |-> 500, detail |-> "Webhook processing failed",
               cause |-> handled.error, dispatched |-> TRUE, handler |-> handled ]
        ELSE [ status |-> 200, detail |-> "success", cause |-> "",
               dispatched |-> TRUE, handler |-> handled ]

stripe_webhook(svc, verification, event, sc, ru) ==
    \E r \in { stripe_webhook_result(svc, verification, event, sc, ru) } :
        /\ r.handler.customers <= MaxCustomers
        /\ subs' = r.handler.subs
        /\ txns' = r.handler.txns
        /\ proxy' = r.handler.proxy
        /\ customers' = r.handler.customers
        /\ last' = [ op |-> "stripe_webhook", status |-> r.status,
                     verified |-> verification = "ok", error |-> r.handler.error ]
        /\ UNCHANGED <<now, plans, otps, keys, sessions, STRIPE_SECRET_KEY,
                       requests, handlers>>

\* POST /webhook-mock (main.py only).  Every outcome is answered 200: a missing
\* plan and a caught exception are reported in the body.  ru: outcome of the
\* key/update call.
webhook_mock_result(phone_number, plan_type, ru) ==
    LET plan == SubscriptionPlan_by_name(plan_type)
        subscription == UserSubscription_by_phone(subs, phone_number)
        creating == subscription = None
        row0 == IF creating THEN UserSubscription(phone_number, plan[1].name, None)
                ELSE subscription[1]
        row1 == [ row0 EXCEPT !.plan = plan[1].name,
                              !.is_active = TRUE,
                              !.expires_at = Some(subscription_expires(now)) ]
        subs1 == IF creating THEN subs \cup { row1 }
                 ELSE (subs \ { subscription[1] }) \cup { row1 }
        sub_flush_ok == creating => sub_insert_ok(subs, keys, phone_number)
        push == update_litellm_api_key("main", phone_number,
                                       PLAN_CONFIGS("main")[plan_type],
                                       sub_flush_ok, proxy, ru)
        same == [ status |-> 200, error |-> "", committed |-> FALSE,
                  update_success |-> FALSE, subs |-> subs, proxy |-> proxy,
                  out |-> <<>> ]
    IN  IF plan = None
        THEN [ same EXCEPT !.error = "Plan not found" ]
        ELSE IF ~sub_flush_ok
        THEN [ same EXCEPT !.error = "IntegrityError" ]
        ELSE [ status |-> 200, error |-> "", committed |-> TRUE,
               update_success |-> push.success, subs |-> subs1,
               proxy |-> push.proxy, out |-> push.out ]

webhook_mock(phone_number, plan_type, ru) ==
    \E r \in { webhook_mock_result(phone_number, plan_type, ru) } :
        /\ subs' = r.subs
        /\ proxy' = r.proxy
        /\ last' = [ op |-> "webhook_mock", status |-> r.status, error |-> r.error ]
        /\ UNCHANGED <<now, plans, otps, keys, txns, customers, sessions,
                       STRIPE_SECRET_KEY, requests, handlers>>

\* time passes between requests
Tick(limit) ==
    /\ now < limit
    /\ now' = now + 1
    /\ last' = NoRequest
    /\ UNCHANGED <<plans, otps, keys, subs, txns, proxy, customers, sessions,
                   STRIPE_SECRET_KEY, requests, handlers>>

Init ==
    /\ now = 0
    /\ plans = SeededPlans
    /\ otps = {}
    /\ keys = {}
    /\ subs = {}
    /\ txns = {}
    /\ proxy = {}
    /\ customers = 0
    /\ sessions = {}
    /\ STRIPE_SECRET_KEY = TRUE
    /\ requests = [ w \in Workers |-> Idle ]
    /\ handlers = [ svc \in Services |-> Idle ]
    /\ last = NoRequest

\* The outcomes to consider for the first and the second key/generate call of a
\* verify-otp request: a call that is not made has no outcome to choose.
first_generate_outcomes(phone_number, otp_code) ==
    IF otp_entry(phone_number, otp_code) # None /\ stored_api_key(phone_number) = None
    THEN ProxyOutcomes ELSE {"200"}
second_generate_outcomes(phone_number, otp_code, r1) ==
    IF /\ otp_entry(phone_number, otp_code) # None
       /\ verify_otp_try(phone_number, otp_code, r1).raised
    THEN ProxyOutcomes ELSE {"200"}

VerifyOtp ==
    \E p \in Phones, c \in Codes :
        \E r1 \in first_generate_outcomes(p, c) :
            \E r2 \in second_generate_outcomes(p, c, r1) : verify_otp(p, c, r1, r2)

SendOtp == \E p \in Phones, c \in IssuedCodes : send_otp(p, c)

\* The outcomes to consider for the upstream call of a spend-logs request
spend_logs_outcomes(api_key) ==
    IF api_key # None /\ PhoneAPIKey_by_key(api_key[1]) # None
    THEN SpendLogsOutcomes ELSE { [ kind |-> "response", status |-> 200 ] }

GetSpendLogs ==
    \E k \in SpendLogsKeys :
        \E u \in spend_logs_outcomes(k) : get_spend_logs(k, u)

Next ==
    \/ Tick(MaxTime)
    \/ SendOtp
    \/ VerifyOtp
    \/ GetSpendLogs

Spec == Init /\ [][Next]_vars

\* ------------------------------------------------ billing specification
\* Without the secret every call to the billing provider raises.
StripeOutcomes == IF STRIPE_SECRET_KEY THEN StripeCallOutcomes ELSE {"error"}

\* The events the provider can deliver: completion of a session it holds, an
\* invoice of a customer it holds, the end of a session's subscription, and a
\* type the service does not handle.
Events ==
    { [ type |-> "checkout.session.completed", object |-> s ] : s \in sessions }
    \cup { [ type |-> "invoice.payment_succeeded", object |-> [ customer |-> c ] ]
           : c \in 1..customers }
    \cup { [ type |-> "customer.subscription.deleted", object |-> [ id |-> s.id ] ]
           : s \in sessions }
    \cup { [ type |-> "customer.created", object |-> [ id |-> 0 ] ] }

\* construct_event raised: the handler never holds an event
NoEvent == [ type |-> "none", object |-> [ id |-> 0 ] ]

\* Outcomes to consider for the outbound calls of a request: a call that is not
\* made has no outcome to choose.
webhook_events(verification) ==
    IF verification = "ok" THEN Events ELSE { NoEvent }
webhook_customer_outcomes(verification, event) ==
    IF /\ verification = "ok"
       /\ event.type = "checkout.session.completed"
       /\ UserSubscription_by_phone(subs, event.object.metadata.phone_number) = None
    THEN StripeOutcomes ELSE {"ok"}
webhook_update_outcomes(verification, event) ==
    IF /\ verification = "ok"
       /\ event.type \in { "checkout.session.completed", "customer.subscription.deleted" }
    THEN ProxyOutcomes ELSE {"200"}
checkout_customer_outcomes(svc, phone_number, plan_type) ==
    IF /\ ~(svc = "main" /\ ~STRIPE_SECRET_KEY)
       /\ plan_type # "free"
       /\ cached_stripe_customer(phone_number) = None
    THEN StripeOutcomes ELSE {"ok"}
checkout_session_outcomes(svc, phone_number, plan_type, sc) ==
    IF /\ ~(svc = "main" /\ ~STRIPE_SECRET_KEY)
       /\ plan_type # "free"
       /\ (cached_stripe_customer(phone_number) = None => sc = "ok")
    THEN StripeOutcomes ELSE {"ok"}

GetUserSubscription == \E p \in Phones : get_user_subscription(p)

\* verification requests of the billing runs: the code that was issued
VerifyIssuedOtp ==
    \E p \in Phones, c \in IssuedCodes :
        \E r1 \in first_generate_outcomes(p, c) :
            \E r2 \in second_generate_outcomes(p, c, r1) : verify_otp(p, c, r1, r2)

CreateCheckoutSession ==
    \E svc \in Services, p \in CheckoutPhones, t \in CheckoutPlans :
        \E sc \in checkout_customer_outcomes(svc, p, t) :
            \E ss \in checkout_session_outcomes(svc, p, t, sc) :
                create_checkout_session(svc, p, t, sc, ss)

StripeWebhook ==
    \E svc \in Services, v \in VerificationOutcomes :
        \E e \in webhook_events(v) :
            \E sc \in webhook_customer_outcomes(v, e), ru \in webhook_update_outcomes(v, e) :
                stripe_webhook(svc, v, e, sc, ru)

\* The billing runs start after a challenge was issued to every phone at time 0.
InitBilling ==
    /\ now = 0
    /\ plans = SeededPlans
    /\ otps = { PhoneOTP(p, "100000", otp_expires(0)) : p \in Phones }
    /\ keys = {}
    /\ subs = {}
    /\ txns = {}
    /\ proxy = {}
    /\ customers = 0
    /\ sessions = {}
    /\ STRIPE_SECRET_KEY \in BOOLEAN
    /\ requests = [ w \in Workers |-> Idle ]
    /\ handlers = [ svc \in Services |-> Idle ]
    /\ last = NoRequest

NextBilling ==
    \/ Tick(MaxBillingTime)
    \/ VerifyIssuedOtp
    \/ GetUserSubscription
    \/ CreateCheckoutSession
    \/ StripeWebhook

SpecBilling == InitBilling /\ [][NextBilling]_vars

\* --------------------------------- billing with the development webhook
mock_update_outcomes(phone_number, plan_type) ==
    IF /\ SubscriptionPlan_by_name(plan_type) # None
       /\ PhoneAPIKey_by_phone(phone_number) # None
    THEN ProxyOutcomes ELSE {"200"}

WebhookMock ==
    \E p \in Phones, t \in CheckoutPlans :
        \E ru \in mock_update_outcomes(p, t) : webhook_mock(p, t, ru)

NextMock ==
    \/ NextBilling
    \/ WebhookMock

SpecMock == InitBilling /\ [][NextMock]_vars

\* ------------------------------------- verification requests served at once
\* POST /verify-otp is a plain `def` route: the framework runs every request on
\* a thread of its pool, each with a database session of its own.  A request is
\* served in the steps below, one per query, outbound call and commit; the
\* steps of different workers interleave.  The store is READ COMMITTED: a query
\* sees what was committed when it runs, and the UNIQUE and FOREIGN KEY
\* constraints are checked at the flush that db.commit() starts.

\* the response of a request, and the worker free again
verify_otp_returns(w, status, api_key) ==
    /\ requests' = [ requests EXCEPT ![w] = Idle ]
    /\ last' = [ op |-> "verify_otp", status |-> status,
                 phone_number |-> requests[w].phone_number,
                 otp_code |-> requests[w].otp_code,
                 calls |-> requests[w].calls, api_key |-> api_key ]

\* a step that leaves the worker inside the request, at position pc
verify_otp_goes(w, pc) ==
    /\ requests' = [ requests EXCEPT ![w].pc = pc ]
    /\ last' = NoRequest

\* the request arrives at worker w, which runs the challenge query of the try
\* block; `raise HTTPException(400)` is caught by `except Exception`
verify_otp_begin(w, phone_number, otp_code) ==
    /\ requests[w] = Idle
    /\ requests' = [ requests EXCEPT ![w] =
                       [ pc |-> IF otp_entry(phone_number, otp_code) = None
                                THEN "except" ELSE "lookup",
                         phone_number |-> phone_number, otp_code |-> otp_code,
                         minted |-> None, calls |-> 0 ] ]
    /\ last' = NoRequest
    /\ UNCHANGED <<now, plans, otps, keys, subs, txns, proxy, customers, sessions,
                   STRIPE_SECRET_KEY, handlers>>

\* api_key_entry = db.query(PhoneAPIKey)...first(): a stored key is returned
verify_otp_lookup(w) ==
    /\ requests[w].pc = "lookup"
    /\ LET api_key_entry == stored_api_key(requests[w].phone_number)
       IN  IF api_key_entry # None
           THEN verify_otp_returns(w, 200, Some(api_key_entry[1].api_key))
           ELSE verify_otp_goes(w, "generate")
    /\ UNCHANGED <<now, plans, otps, keys, subs, txns, proxy, customers, sessions,
                   STRIPE_SECRET_KEY, handlers>>

\* r = requests.post(.../key/generate), answered r1
verify_otp_generate(w, r1) ==
    /\ requests[w].pc = "generate"
    /\ LET free_plan == SubscriptionPlan_by_name("free")
           payload == generate_payload(requests[w].phone_number,
                                       verify_plan_config(free_plan))
           minted == proxy_key_generate(proxy, payload)
       IN  /\ proxy' = IF r1 = "200" THEN proxy \cup { minted } ELSE proxy
           /\ requests' = [ requests EXCEPT
                              ![w].pc = IF r1 = "200" THEN "commit" ELSE "except",
                              ![w].minted = IF r1 = "200" THEN Some(minted.key) ELSE None,
                              ![w].calls = @ + 1 ]
    /\ last' = NoRequest
    /\ UNCHANGED <<now, plans, otps, keys, subs, txns, customers, sessions,
                   STRIPE_SECRET_KEY, handlers>>

\* db.add(api_key_entry); db.add(subscription); db.commit()
verify_otp_commit(w) ==
    /\ requests[w].pc = "commit"
    /\ LET phone_number == requests[w].phone_number
           free_plan == SubscriptionPlan_by_name("free")
           keys1 == keys \cup { PhoneAPIKey(phone_number, requests[w].minted[1]) }
           commit_ok == /\ key_insert_ok(keys, phone_number)
                        /\ free_plan # None => sub_insert_ok(subs, keys1, phone_number)
       IN  IF commit_ok
           THEN /\ keys' = keys1
                /\ subs' = IF free_plan # None
                           THEN subs \cup { UserSubscription(phone_number,
                                                             free_plan[1].name, None) }
                           ELSE subs
                /\ verify_otp_returns(w, 200, requests[w].minted)
           ELSE /\ UNCHANGED <<keys, subs>>
                /\ verify_otp_goes(w, "except")
    /\ UNCHANGED <<now, plans, otps, txns, proxy, customers, sessions,
                   STRIPE_SECRET_KEY, handlers>>

\* `except Exception as e`: init_database(), a new session, the challenge query
\* again; its HTTPException(400) is answered 500 by `except Exception as retry_e`
verify_otp_except(w) ==
    /\ requests[w].pc = "except"
    /\ IF otp_entry(requests[w].phone_number, requests[w].otp_code) = None
       THEN verify_otp_returns(w, 500, None)
       ELSE verify_otp_goes(w, "retry_lookup")
    /\ UNCHANGED <<now, plans, otps, keys, subs, txns, proxy, customers, sessions,
                   STRIPE_SECRET_KEY, handlers>>

\* the key query of the except block
verify_otp_retry_lookup(w) ==
    /\ requests[w].pc = "retry_lookup"
    /\ LET api_key_entry == PhoneAPIKey_by_phone(requests[w].phone_number)
       IN  IF api_key_entry # None
           THEN verify_otp_returns(w, 200, Some(api_key_entry[1].api_key))
           ELSE verify_otp_goes(w, "retry_generate")
    /\ UNCHANGED <<now, plans, otps, keys, subs, txns, proxy, customers, sessions,
                   STRIPE_SECRET_KEY, handlers>>

\* the key/generate call of the except block, answered r2
verify_otp_retry_generate(w, r2) ==
    /\ requests[w].pc = "retry_generate"
    /\ LET minted == proxy_key_generate(
                         proxy, retry_generate_payload(requests[w].phone_number))
       IN  IF r2 = "200"
           THEN /\ proxy' = proxy \cup { minted }
                /\ requests' = [ requests EXCEPT ![w].pc = "retry_commit",
                                                 ![w].minted = Some(minted.key),
                                                 ![w].calls = @ + 1 ]
                /\ last' = NoRequest
           ELSE /\ proxy' = proxy
                /\ requests' = [ requests EXCEPT ![w] = Idle ]
                /\ last' = [ op |-> "verify_otp", status |-> 500,
                             phone_number |-> requests[w].phone_number,
                             otp_code |-> requests[w].otp_code,
                             calls |-> requests[w].calls + 1, api_key |-> None ]
    /\ UNCHANGED <<now, plans, otps, keys, subs, txns, customers, sessions,
                   STRIPE_SECRET_KEY, handlers>>

\* db.add(api_key_entry); db.commit() of the except block
verify_otp_retry_commit(w) ==
    /\ requests[w].pc = "retry_commit"
    /\ LET phone_number == requests[w].phone_number
       IN  IF key_insert_ok(keys, phone_number)
           THEN /\ keys' = keys \cup { PhoneAPIKey(phone_number, requests[w].minted[1]) }
                /\ verify_otp_returns(w, 200, requests[w].minted)
           ELSE /\ keys' = keys
                /\ verify_otp_returns(w, 500, None)
    /\ UNCHANGED <<now, plans, otps, subs, txns, proxy, customers, sessions,
                   STRIPE_SECRET_KEY, handlers>>

VerifyOtpBegin == \E w \in Workers, p \in Phones, c \in Codes : verify_otp_begin(w, p, c)
VerifyOtpLookup == \E w \in Workers : verify_otp_lookup(w)
VerifyOtpGenerate == \E w \in Workers, r1 \in ProxyOutcomes : verify_otp_generate(w, r1)
VerifyOtpCommit == \E w \in Workers : verify_otp_commit(w)
VerifyOtpExcept == \E w \in Workers : verify_otp_except(w)
VerifyOtpRetryLookup == \E w \in Workers : verify_otp_retry_lookup(w)
VerifyOtpRetryGenerate ==
    \E w \in Workers, r2 \in ProxyOutcomes : verify_otp_retry_generate(w, r2)
VerifyOtpRetryCommit == \E w \in Workers : verify_otp_retry_commit(w)

\* The concurrent runs start after a challenge was issued to every phone at
\* time 0, with the billing secret configured.
InitRace == InitBilling /\ STRIPE_SECRET_KEY

NextRace ==
    \/ VerifyOtpBegin
    \/ VerifyOtpLookup
    \/ VerifyOtpGenerate
    \/ VerifyOtpCommit
    \/ VerifyOtpExcept
    \/ VerifyOtpRetryLookup
    \/ VerifyOtpRetryGenerate
    \/ VerifyOtpRetryCommit

SpecRace == InitRace /\ [][NextRace]_vars

\* --------------------------------------------------- webhooks served at once
\* main.py and payment_service.py both serve POST /webhook, each in a process
\* of its own, on the same store (payment_service imports SessionLocal from
\* main).  Inside one process the handlers never interleave: they are `async`
\* functions that await nothing after the request body was read.  A handler is
\* served in the steps below, one per query, flush, outbound call and commit.
\* The store is READ COMMITTED with row locks: an INSERT or UPDATE that was
\* flushed holds its row until the transaction ends, and a statement of another
\* transaction on that row waits.

\* UPDATE ... SET <the columns of write> on a row
row_update(row, write) ==
    [ c \in DOMAIN row |-> IF c \in DOMAIN write THEN write[c] ELSE row[c] ]

\* The UPDATE the ORM emits at a flush carries the columns whose assigned value
\* differs from the value the row was loaded with; a column assigned from the
\* clock (stamped) never repeats a loaded value.
pending_update(loaded, assigned, stamped) ==
    [ c \in { d \in DOMAIN assigned : assigned[d] # loaded[d] } \cup stamped
        |-> assigned[c] ]

\* another service holds the phone's subscription row: it flushed an INSERT or
\* an UPDATE of it and has not yet committed
sub_row_locked(svc, phone_number) ==
    \E o \in Services \ { svc } :
        /\ handlers[o].pc \in { "push", "commit" }
        /\ handlers[o].flush_ok
        /\ handlers[o].phone_number = phone_number

\* another service holds the transaction row of a session: its UPDATE was
\* flushed by the subscription query of handle_successful_payment
txn_row_locked(svc, stripe_session_id) ==
    \E o \in Services \ { svc } :
        /\ handlers[o].pc \in { "flush", "push", "commit" }
        /\ handlers[o].has_txn
        /\ handlers[o].object.id = stripe_session_id

\* the handler of svc has ended; the route has still to answer
hook_done(svc, committed, update_success, error) ==
    handlers' = [ handlers EXCEPT ![svc] =
                    [ pc |-> "done", type |-> handlers[svc].type,
                      phone_number |-> handlers[svc].phone_number,
                      committed |-> committed, update_success |-> update_success,
                      error |-> error ] ]

\* a verified event arrives at svc, which dispatches it and runs the handler's
\* first queries: the plan and the transaction of a completed session, the
\* subscription and the free plan of a deleted subscription
hook_begin(svc, event) ==
    /\ handlers[svc] = Idle
    /\ LET completed == event.type = "checkout.session.completed"
           found == IF completed
                    THEN None
                    ELSE first({ u \in subs :
                                   u.stripe_subscription_id = Some(event.object.id) })
           error == IF completed
                    THEN IF SubscriptionPlan_by_name(event.object.metadata.plan_type) = None
                         THEN "Plan not found" ELSE ""
                    ELSE IF found # None /\ SubscriptionPlan_by_name("free") = None
                         THEN "AttributeError" ELSE ""
           ends == error # "" \/ (~completed /\ found = None)
       IN  handlers' = [ handlers EXCEPT ![svc] =
               IF ends
               THEN [ pc |-> "done", type |-> event.type,
                      phone_number |-> IF completed
                                       THEN event.object.metadata.phone_number
                                       ELSE IF found = None THEN ""
                                       ELSE found[1].phone_number,
                      committed |-> FALSE, update_success |-> FALSE, error |-> error ]
               ELSE [ pc |-> IF completed THEN "read" ELSE "flush",
                      type |-> event.type, object |-> event.object,
                      phone_number |-> IF completed
                                       THEN event.object.metadata.phone_number
                                       ELSE found[1].phone_number,
                      plan_type |-> IF completed THEN event.object.metadata.plan_type
                                    ELSE "free",
                      creating |-> FALSE, has_txn |-> FALSE,
                      write |-> IF completed THEN << >>
                                ELSE pending_update(
                                         found[1],
                                         [ plan |-> "free", is_active |-> TRUE,
                                           expires_at |-> None,
                                           stripe_subscription_id |-> None ], {}),
                      flush_ok |-> FALSE, api_key |-> None,
                      update_success |-> FALSE ] ]
    /\ last' = NoRequest
    /\ UNCHANGED <<now, plans, otps, keys, subs, txns, proxy, customers, sessions,
                   STRIPE_SECRET_KEY, requests>>

\* handle_successful_payment: the subscription query, which flushes the UPDATE
\* of the transaction, and the customer created for a phone without a row
\* (sc: the outcome of stripe.Customer.create)
hook_read(svc, sc) ==
    /\ handlers[svc].pc = "read"
    /\ LET h == handlers[svc]
           transaction == first({ t \in txns : t.stripe_session_id = h.object.id })
           subscription == UserSubscription_by_phone(subs, h.phone_number)
           creating == subscription = None
           assigned == [ plan |-> h.plan_type,
                         stripe_subscription_id |-> h.object.subscription,
                         is_active |-> TRUE,
                         expires_at |-> Some(subscription_expires(now)) ]
       IN  /\ ~txn_row_locked(svc, h.object.id)
           /\ IF creating /\ sc # "ok"
              THEN /\ hook_done(svc, FALSE, FALSE, "StripeError")
                   /\ customers' = customers
              ELSE /\ customers' = IF creating THEN customers + 1 ELSE customers
                   /\ customers' <= MaxCustomers
                   /\ handlers' = [ handlers EXCEPT
                          ![svc].pc = "flush",
                          ![svc].creating = creating,
                          ![svc].has_txn = transaction # None,
                          ![svc].write =
                              IF creating
                              THEN row_update(UserSubscription(h.phone_number, h.plan_type,
                                                               Some(customers + 1)),
                                              assigned)
                              ELSE pending_update(subscription[1], assigned,
                                                  { "expires_at" }) ]
    /\ last' = NoRequest
    /\ UNCHANGED <<now, plans, otps, keys, subs, txns, proxy, sessions,
                   STRIPE_SECRET_KEY, requests>>

\* update_litellm_api_key: the key query, which flushes the INSERT or UPDATE of
\* the subscription row; a flush that fails is caught there, and no call is
\* made for a phone without a key
hook_flush(svc) ==
    /\ handlers[svc].pc = "flush"
    /\ LET h == handlers[svc]
           flush_ok == h.creating => sub_insert_ok(subs, keys, h.phone_number)
           api_key_entry == PhoneAPIKey_by_phone(h.phone_number)
       IN  /\ ~sub_row_locked(svc, h.phone_number)
           /\ handlers' = [ handlers EXCEPT
                  ![svc].pc = IF flush_ok /\ api_key_entry # None
                              THEN "push" ELSE "commit",
                  ![svc].flush_ok = flush_ok,
                  ![svc].api_key = IF flush_ok /\ api_key_entry # None
                                   THEN Some(api_key_entry[1].api_key) ELSE None ]
    /\ last' = NoRequest
    /\ UNCHANGED <<now, plans, otps, keys, subs, txns, proxy, customers, sessions,
                   STRIPE_SECRET_KEY, requests>>

\* update_litellm_api_key: requests.post(.../key/update), answered ru
hook_push(svc, ru) ==
    /\ handlers[svc].pc = "push"
    /\ LET h == handlers[svc]
           payload == update_payload(svc, h.api_key[1], PLAN_CONFIGS(svc)[h.plan_type])
       IN  /\ proxy' = IF ru = "200" THEN proxy_key_update(proxy, payload) ELSE proxy
           /\ handlers' = [ handlers EXCEPT ![svc].pc = "commit",
                                            ![svc].update_success = ru = "200" ]
    /\ last' = NoRequest
    /\ UNCHANGED <<now, plans, otps, keys, subs, txns, customers, sessions,
                   STRIPE_SECRET_KEY, requests>>

\* db.commit(): what was flushed becomes visible and the rows are released; after
\* a failed flush the commit raises and the handler rolls back
hook_commit(svc) ==
    /\ handlers[svc].pc = "commit"
    /\ LET h == handlers[svc]
       IN  IF h.flush_ok
           THEN /\ subs' = IF h.creating THEN subs \cup { h.write }
                           ELSE { IF u.phone_number = h.phone_number
                                  THEN row_update(u, h.write) ELSE u : u \in subs }
                /\ txns' = IF h.has_txn
                           THEN { IF t.stripe_session_id = h.object.id
                                  THEN [ t EXCEPT !.status = "succeeded",
                                                  !.stripe_payment_intent_id =
                                                      h.object.payment_intent ]
                                  ELSE t : t \in txns }
                           ELSE txns
                /\ hook_done(svc, TRUE, h.update_success, "")
           ELSE /\ UNCHANGED <<subs, txns>>
                /\ hook_done(svc, FALSE, FALSE, "IntegrityError")
    /\ last' = NoRequest
    /\ UNCHANGED <<now, plans, otps, keys, proxy, customers, sessions,
                   STRIPE_SECRET_KEY, requests>>

\* return {"status": "success"}
hook_return(svc) ==
    /\ handlers[svc].pc = "done"
    /\ handlers' = [ handlers EXCEPT ![svc] = Idle ]
    /\ last' = [ op |-> "stripe_webhook", status |-> 200, verified |-> TRUE,
                 error |-> handlers[svc].error ]
    /\ UNCHANGED <<now, plans, otps, keys, subs, txns, proxy, customers, sessions,
                   STRIPE_SECRET_KEY, requests>>

\* the events whose handlers call the proxy
PushingEvents ==
    { e \in Events : e.type \in { "checkout.session.completed",
                                  "customer.subscription.deleted" } }

HookBegin == \E svc \in Services, e \in PushingEvents : hook_begin(svc, e)
HookRead == \E svc \in Services, sc \in StripeOutcomes : hook_read(svc, sc)
HookFlush == \E svc \in Services : hook_flush(svc)
HookPush == \E svc \in Services, ru \in ProxyOutcomes : hook_push(svc, ru)
HookCommit == \E svc \in Services : hook_commit(svc)
HookReturn == \E svc \in Services : hook_return(svc)

NextHooks ==
    \/ VerifyIssuedOtp
    \/ CreateCheckoutSession
    \/ HookBegin
    \/ HookRead
    \/ HookFlush
    \/ HookPush
    \/ HookCommit
    \/ HookReturn

SpecHooks == InitRace /\ [][NextHooks]_vars

\* ----------------------------------------------------------- plan seeding
\* init_subscription_plans: a row is added for every plan type that has none,
\* built from the PLAN_CONFIGS of the module that runs it
init_subscription_plans(svc, rows) ==
    rows \cup { SubscriptionPlan(t, PLAN_CONFIGS(svc)[t])
                : t \in { x \in PlanType : \A q \in rows : q.name # x } }

\* a database session at startup: it works, or the server cannot be reached
DatabaseOutcomes == { "ok", "OperationalError" }

\* Start of the main service: the module-level init_subscription_plans(), which
\* catches and prints every error
main_startup(db) ==
    /\ plans' = IF db = "ok" THEN init_subscription_plans("main", plans) ELSE plans
    /\ last' = [ op |-> "startup", service |-> "main",
                 status |-> IF db = "ok" THEN 200 ELSE 500 ]
    /\ UNCHANGED <<now, otps, keys, subs, txns, proxy, customers, sessions,
                   STRIPE_SECRET_KEY, requests, handlers>>

\* Start of the payment service: `from main import ...` runs main's seeding
\* (on the session db_import), then the startup event runs the module's own
\* (on the session db_startup), which catches nothing
payment_startup(db_import, db_startup) ==
    /\ LET imported == IF db_import = "ok"
                       THEN init_subscription_plans("main", plans) ELSE plans
       IN  plans' = IF db_startup = "ok"
                    THEN init_subscription_plans("payment", imported) ELSE imported
    /\ last' = [ op |-> "startup", service |-> "payment",
                 status |-> IF db_startup = "ok" THEN 200 ELSE 500 ]
    /\ UNCHANGED <<now, otps, keys, subs, txns, proxy, customers, sessions,
                   STRIPE_SECRET_KEY, requests, handlers>>

MainStartup == \E db \in DatabaseOutcomes : main_startup(db)
PaymentStartup ==
    \E db_import \in DatabaseOutcomes, db_startup \in DatabaseOutcomes :
        payment_startup(db_import, db_startup)

\* The seeding runs start with the tables created (init_database) and the
\* catalog not yet seeded.
InitSeed ==
    /\ now = 0
    /\ plans = {}
    /\ otps = { PhoneOTP(p, "100000", otp_expires(0)) : p \in Phones }
    /\ keys = {}
    /\ subs = {}
    /\ txns = {}
    /\ proxy = {}
    /\ customers = 0
    /\ sessions = {}
    /\ STRIPE_SECRET_KEY = TRUE
    /\ requests = [ w \in Workers |-> Idle ]
    /\ handlers = [ svc \in Services |-> Idle ]
    /\ last = NoRequest

NextSeed ==
    \/ MainStartup
    \/ PaymentStartup
    \/ VerifyIssuedOtp
    \/ GetUserSubscription
    \/ CreateCheckoutSession
    \/ StripeWebhook

SpecSeed == InitSeed /\ [][NextSeed]_vars

\* ============================================================== properties
\* the challenges stored for a phone and a code, valid or not
challenges(phone_number, otp_code) ==
    { o \in otps : o.phone_number = phone_number /\ o.otp_code = otp_code }

\* C1: a challenge issued at time T is stored with expiry exactly T + 5 minutes;
\* a verification succeeds only on a challenge of that phone and code whose
\* expiry lies strictly after the current time, and a verification that finds
\* every such challenge at or past its expiry (now >= T + 5) is rejected as
\* "Invalid or expired OTP" and hands out no key, although the code is the
\* one that was issued.
C1_OtpExpiresAfterFiveMinutes ==
    /\ [][ \A p \in Phones, c \in IssuedCodes :
              send_otp(p, c) => otps' = otps \cup { PhoneOTP(p, c, now + 5) } ]_vars
    /\ [](\A p \in Phones, c \in Codes :
              \A r1 \in first_generate_outcomes(p, c) :
                  \A r2 \in second_generate_outcomes(p, c, r1) :
                      \A r \in { verify_otp_result(p, c, r1, r2) } :
                          /\ r.status = 200 =>
                                \E o \in challenges(p, c) : now < o.expires_at
                          /\ (\A o \in challenges(p, c) : now >= o.expires_at) =>
                                /\ r.status # 200
                                /\ r.cause = "Invalid or expired OTP"
                                /\ r.api_key = None
                                /\ r.keys = keys)

\* C1 witness: the issued code of a phone was submitted at the very minute its
\* only challenge expired, and the request was rejected
C1_RejectedAtExpiry ==
    /\ last.op = "verify_otp"
    /\ last.status # 200
    /\ challenges(last.phone_number, last.otp_code) # {}
    /\ \A o \in challenges(last.phone_number, last.otp_code) : o.expires_at = now
    /\ now >= 5

\* the key rows stored for a phone
key_rows(keyRows, phone_number) == { k \in keyRows : k.phone_number = phone_number }

\* C2: a verification whose phone and code match no unexpired challenge is
\* answered with HTTP 400, creates no key row and no subscription row, and
\* makes no call to the proxy.
C2_NoMatchAnswers400 ==
    [][ \A p \in Phones, c \in Codes :
            (otp_entry(p, c) = None /\ verify_otp(p, c, "200", "200")) =>
                \A r \in { verify_otp_result(p, c, "200", "200") } :
                    /\ r.status = 400
                    /\ last'.status = 400
                    /\ keys' = keys
                    /\ subs' = subs
                    /\ r.out = <<>>
                    /\ proxy' = proxy
      ]_vars

\* C3: a phone never has more than one key row; the first successful
\* verification of a phone stores exactly one row, for that phone, and returns
\* its key; a successful verification of a phone that has a row returns the
\* stored key, makes no key-creation call and leaves the table as it is; no
\* step changes or deletes a stored row.
C3_OneKeyPerPhone ==
    /\ [][ keys \subseteq keys' ]_vars
    /\ [](\A p \in Phones :
              /\ Cardinality(key_rows(keys, p)) <= 1
              /\ \A c \in Codes :
                    \A r1 \in first_generate_outcomes(p, c) :
                        \A r2 \in second_generate_outcomes(p, c, r1) :
                            \A r \in { verify_otp_result(p, c, r1, r2) } :
                                r.status = 200 =>
                                    IF key_rows(keys, p) = {}
                                    THEN \E k \in r.keys :
                                            /\ r.keys = keys \cup { k }
                                            /\ k.phone_number = p
                                            /\ r.api_key = Some(k.api_key)
                                    ELSE /\ \E k \in key_rows(keys, p) :
                                                r.api_key = Some(k.api_key)
                                         /\ r.out = <<>>
                                         /\ r.proxy = proxy
                                         /\ r.keys = keys)

\* C3 witness: a phone that holds a key verified successfully once more, while
\* the other phone holds a key of its own
C3_VerifiedAgain ==
    /\ last.op = "verify_otp"
    /\ last.status = 200
    /\ last.calls = 0
    /\ Cardinality(keys) = 2
    /\ \A p \in Phones : Cardinality(key_rows(keys, p)) = 1

\* C4: a step that serves a verification answered 200 leaves the stored
\* challenges as they are, the phone holding a key and its challenge still
\* unexpired; and in every state in which a phone holds a key and an
\* unexpired challenge, a verification with that code answers 200 with the
\* stored key, so the same phone and code are accepted again until the expiry.
C4_ChallengeIsReusable ==
    /\ [][ (last'.op = "verify_otp" /\ last'.status = 200) =>
              /\ otps' = otps
              /\ key_rows(keys', last'.phone_number) # {}
              /\ \E o \in otps' :
                    otp_matches(o, last'.phone_number, last'.otp_code, now')
         ]_vars
    /\ [](\A p \in Phones, c \in Codes :
              ( key_rows(keys, p) # {} /\ \E o \in otps : otp_matches(o, p, c, now) ) =>
                  \A r1 \in ProxyOutcomes, r2 \in ProxyOutcomes :
                      \A r \in { verify_otp_result(p, c, r1, r2) } :
                          /\ r.status = 200
                          /\ \E k \in key_rows(keys, p) : r.api_key = Some(k.api_key))

\* C4 witness: a phone whose key was minted by an earlier verification
\* submitted its code again, some minutes after the challenge was issued, and
\* was answered 200 without a call to the proxy
C4_AcceptedTwice ==
    /\ last.op = "verify_otp"
    /\ last.status = 200
    /\ last.calls = 0
    /\ key_rows(keys, last.phone_number) # {}
    /\ Cardinality(otps) = 1
    /\ \E o \in otps : otp_matches(o, last.phone_number, last.otp_code, now)
    /\ now > 0

\* the subscription rows stored for a phone
sub_rows(subRows, phone_number) == { u \in subRows : u.phone_number = phone_number }

\* C5: a verified checkout.session.completed event for a session S of phone p
\* and plan P, P being in the catalog, leaves the transaction of S succeeded
\* and leaves p with exactly one subscription row, on plan P, active, expiring
\* 30 days from now (the billing provider and the proxy answering as they may,
\* the provider creating the customer it is asked for).
C5_CompletedCheckoutUpgrades ==
    \A svc \in Services, s \in sessions, ru \in ProxyOutcomes :
        \A r \in { stripe_webhook_result(
                       svc, "ok", [ type |-> "checkout.session.completed", object |-> s ],
                       "ok", ru) } :
            SubscriptionPlan_by_name(s.metadata.plan_type) # None =>
                /\ r.dispatched
                /\ \A t \in r.handler.txns :
                      t.stripe_session_id = s.id => t.status = "succeeded"
                /\ \E u \in r.handler.subs :
                      /\ sub_rows(r.handler.subs, s.metadata.phone_number) = { u }
                      /\ u.plan = s.metadata.plan_type
                      /\ u.is_active
                      /\ u.expires_at = Some(now + 30 * 24 * 60)

\* C6: a verified customer.subscription.deleted event whose subscription id is
\* the one stored on a row puts that row on the Free plan with no expiry and
\* no subscription id, whatever it held before, leaves every other row as it
\* is, and makes one key/update call for the row's phone that carries the Free
\* limits (2 requests and 1000 tokens per minute, 1 parallel request).
C6_CancellationResetsToFree ==
    \A svc \in Services, ru \in ProxyOutcomes, u \in subs :
        u.stripe_subscription_id # None =>
            \A r \in { stripe_webhook_result(
                           svc, "ok",
                           [ type |-> "customer.subscription.deleted",
                             object |-> [ id |-> u.stripe_subscription_id[1] ] ],
                           "ok", ru) } :
                /\ r.status = 200
                /\ \E v \in r.handler.subs :
                      /\ v.phone_number = u.phone_number
                      /\ v.plan = "free"
                      /\ v.expires_at = None
                      /\ v.stripe_subscription_id = None
                      /\ r.handler.subs \ { v } = subs \ { u }
                /\ Len(r.handler.out) = 1
                /\ r.handler.out[1].api = "key/update"
                /\ \E k \in key_rows(keys, u.phone_number) :
                      r.handler.out[1].payload.key = k.api_key
                /\ r.handler.out[1].payload.rpm_limit = 2
                /\ r.handler.out[1].payload.tpm_limit = 1000
                /\ r.handler.out[1].payload.max_parallel_requests = 1
                /\ r.handler.txns = txns

\* C6 witness: the paid subscription of a phone was cancelled (its transaction
\* succeeded, its row is back on Free with no expiry and no subscription id)
\* while the other phone holds a row of its own
C6_Cancelled ==
    /\ last.op = "stripe_webhook"
    /\ Cardinality(subs) = 2
    /\ \E t \in txns, u \in subs :
          /\ t.status = "succeeded"
          /\ u.phone_number = t.phone_number
          /\ u.plan = "free"
          /\ u.expires_at = None
          /\ u.stripe_subscription_id = None

\* C7: a verified invoice.payment_succeeded event for a customer id stored on
\* a row sets that row's expiry to 30 days from now and changes neither its
\* plan nor anything at the proxy (no key/update call is made); for a customer
\* id stored on no row the event changes nothing.
C7_RenewalExtendsExpiry ==
    \A svc \in Services, c \in 1..(customers + 1) :
        \A r \in { stripe_webhook_result(
                       svc, "ok",
                       [ type |-> "invoice.payment_succeeded",
                         object |-> [ customer |-> c ] ],
                       "ok", "200") } :
            /\ r.status = 200
            /\ r.handler.out = <<>>
            /\ r.handler.proxy = proxy
            /\ r.handler.txns = txns
            /\ r.handler.customers = customers
            /\ IF \E u \in subs : u.stripe_customer_id = Some(c)
               THEN \E u \in subs :
                      /\ u.stripe_customer_id = Some(c)
                      /\ r.handler.subs = (subs \ { u }) \cup
                            { [ u EXCEPT !.expires_at = Some(now + 30 * 24 * 60),
                                         !.is_active = TRUE ] }
               ELSE r.handler.subs = subs

\* C7 witness: an invoice was paid for a row some time after the row was put
\* back on Free by a cancellation: the row carries its customer id, the Free
\* plan and an expiry 30 days after the present minute
C7_Renewed ==
    /\ last.op = "stripe_webhook"
    /\ now > 0
    /\ \E u \in subs :
          /\ u.stripe_customer_id # None
          /\ u.plan = "free"
          /\ u.expires_at = Some(now + 30 * 24 * 60)

\* C8: a checkout request for the Free plan is answered 400, "Cannot create
\* checkout for free plan", in both modules and whether or not the billing
\* secret is configured; no checkout URL is returned, no customer and no
\* transaction is created.
C8_FreeCheckoutAnswers400 ==
    \A svc \in Services, p \in CheckoutPhones :
        \A r \in { create_checkout_session_result(svc, p, "free", "ok", "ok") } :
            /\ r.status = 400
            /\ r.cause = "Cannot create checkout for free plan"
            /\ r.checkout_url = None
            /\ r.txns = txns
            /\ r.customers = customers
            /\ r.sessions = sessions

\* C9: reading the subscription of a phone that has no row creates exactly
\* one row for it, Free, active, without expiry, and a second read creates
\* nothing more.
C9_SubscriptionReadIsIdempotent ==
    [][ \A p \in Phones :
            (sub_rows(subs, p) = {} /\ get_user_subscription(p)) =>
                /\ last'.status = 200
                /\ subs' = subs \cup { UserSubscription(p, "free", None) }
                /\ get_user_subscription_result(p)'.status = 200
                /\ get_user_subscription_result(p)'.subs = subs'
      ]_vars

\* C10: a webhook request whose signature or payload fails verification is
\* answered 400, dispatches no handler, changes no row and pushes no limits.
C10_UnverifiedWebhookAnswers400 ==
    \A svc \in Services, v \in VerificationOutcomes \ { "ok" } :
        \A r \in { stripe_webhook_result(svc, v, NoEvent, "ok", "200") } :
            /\ r.status = 400
            /\ ~r.dispatched
            /\ r.handler.subs = subs
            /\ r.handler.txns = txns
            /\ r.handler.proxy = proxy
            /\ r.handler.out = <<>>

\* a completed checkout whose plan is no longer in the catalog
LegacySession ==
    [ id |-> 0, customer |-> 0,
      metadata |-> [ phone_number |-> "p1", plan_type |-> "legacy" ],
      subscription |-> Some(0), payment_intent |-> None ]

\* C11: every step that serves an event which passed verification answers
\* 200, whatever its handler met: an integrity error at flush or commit, a
\* billing provider error, a limit push that failed or raised; and a
\* completed checkout whose plan is not in the catalog is answered 200,
\* "success", as well.
C11_VerifiedEventIsAcknowledged ==
    /\ [][ (last'.op = "stripe_webhook" /\ last'.verified) => last'.status = 200 ]_vars
    /\ [](\A svc \in Services :
              \A r \in { stripe_webhook_result(
                             svc, "ok",
                             [ type |-> "checkout.session.completed",
                               object |-> LegacySession ],
                             "ok", "200") } :
                  /\ r.handler.error = "Plan not found"
                  /\ r.status = 200
                  /\ r.detail = "success")

\* C11 witness: a verified event whose handler met an error was answered 200
C11_FailureAcknowledged ==
    /\ last.op = "stripe_webhook"
    /\ last.verified
    /\ last.status = 200
    /\ last.error # ""

\* C12: when the limit push made for a completed checkout fails (the phone has
\* no key, the proxy answers another status than 200, the request raises),
\* the transaction of the session is still committed as succeeded and the
\* phone's row is still committed on the purchased plan.
C12_FailedPushKeepsUpgrade ==
    \A svc \in Services, s \in sessions, ru \in ProxyOutcomes :
        \A r \in { stripe_webhook_result(
                       svc, "ok", [ type |-> "checkout.session.completed", object |-> s ],
                       "ok", ru) } :
            ~r.handler.update_success =>
                /\ r.handler.committed
                /\ \A t \in r.handler.txns :
                      t.stripe_session_id = s.id => t.status = "succeeded"
                /\ \E u \in r.handler.subs :
                      /\ u.phone_number = s.metadata.phone_number
                      /\ u.plan = s.metadata.plan_type

\* C13: when the key-creation call of a verification for a phone without a key
\* does not succeed, the request is answered with a server error, stores no
\* key row and makes no further key-creation call.
C13_FailedKeyCreationSurfaces ==
    \A p \in Phones, c \in Codes, r1 \in ProxyOutcomes \ { "200" }, r2 \in ProxyOutcomes :
        (otp_entry(p, c) # None /\ key_rows(keys, p) = {}) =>
            \A r \in { verify_otp_result(p, c, r1, r2) } :
                /\ r.status >= 500
                /\ r.keys = keys
                /\ r.api_key = None
                /\ Len(r.out) = 1

\* C14: a verification that stores a new key row minted that key at the proxy
\* with the Free limits (2 requests and 1000 tokens per minute, 1 parallel
\* request) and a 30-day budget window, and leaves the phone with a
\* subscription row on the Free plan.
C14_NewKeyCarriesFreeLimits ==
    \A p \in Phones, c \in Codes, r1 \in ProxyOutcomes, r2 \in ProxyOutcomes :
        \A r \in { verify_otp_result(p, c, r1, r2) } :
            (r.status = 200 /\ r.keys # keys) =>
                /\ \E k \in r.proxy \ proxy :
                      /\ r.api_key = Some(k.key)
                      /\ k.rpm_limit = 2
                      /\ k.tpm_limit = 1000
                      /\ k.max_parallel_requests = 1
                      /\ k.budget_duration = "30d"
                /\ \E u \in r.subs : u.phone_number = p /\ u.plan = "free"

\* C15: one billing customer per phone: once a checkout session exists for a
\* phone, a further checkout request of that phone creates no customer and
\* opens its session for the customer of the earlier one.
C15_OneCustomerPerPhone ==
    \A svc \in Services, s \in sessions, t \in CheckoutPlans \ { "free" } :
        \A r \in { create_checkout_session_result(
                       svc, s.metadata.phone_number, t, "ok", "ok") } :
            /\ r.customers = customers
            /\ \A i \in DOMAIN r.out :
                  /\ r.out[i].api = "stripe.checkout.Session.create"
                  /\ r.out[i].customer = s.customer

\* C16: a checkout request for a paid plan that obtains a session from the
\* billing provider is answered 200 with the checkout URL and adds one
\* transaction row, pending, carrying that session's id, whatever transactions
\* are stored already.
C16_CheckoutRecordsTransaction ==
    \A svc \in Services, p \in CheckoutPhones, t \in CheckoutPlans \ { "free" } :
        \A r \in { create_checkout_session_result(svc, p, t, "ok", "ok") } :
            \A s \in r.sessions \ sessions :
                /\ r.status = 200
                /\ r.checkout_url # None
                /\ \E x \in r.txns :
                      /\ r.txns = txns \cup { x }
                      /\ x \notin txns
                      /\ x.status = "pending"
                      /\ x.stripe_session_id = s.id
                      /\ x.phone_number = p

\* C17: a spend-logs request reaches the proxy only for an api_key stored in
\* a key row: a missing api_key is answered 400 and an unknown one 404, both
\* without an upstream call; for a stored key an upstream answer other than
\* 200 is passed back with the upstream's status.
C17_SpendLogsOnlyForIssuedKeys ==
    \A k \in SpendLogsKeys, u \in SpendLogsOutcomes :
        \A r \in { get_spend_logs_result(k, u) } :
            LET stored == k # None /\ \E row \in keys : row.api_key = k[1]
            IN  /\ r.out # <<>> => stored
                /\ k = None => r.status = 400 /\ r.out = <<>>
                /\ (k # None /\ ~stored) => r.status = 404 /\ r.out = <<>>
                /\ (stored /\ u.kind = "response" /\ u.status # 200) =>
                      /\ r.status = u.status
                      /\ r.out = << SpendLogsCall(k[1]) >>

\* C17 witness: with a key issued, a request naming a key nobody was issued
\* was answered 404 without an upstream call
C17_UnknownKeyRefused ==
    /\ last.op = "get_spend_logs"
    /\ last.status = 404
    /\ last.calls = 0
    /\ keys # {}

\* C18: a verified event whose type is none of checkout.session.completed,
\* invoice.payment_succeeded and customer.subscription.deleted is answered
\* with success and runs no handler: no error is logged, no subscription or
\* transaction row changes, nothing changes at the proxy or the billing
\* provider, no outbound call is made; and no step that serves a webhook
\* touches a challenge or a key row.
C18_UnknownEventIsIgnored ==
    /\ [](\A svc \in Services, sc \in StripeCallOutcomes, ru \in ProxyOutcomes :
              \A e \in { x \in Events :
                           x.type \notin { "checkout.session.completed",
                                           "invoice.payment_succeeded",
                                           "customer.subscription.deleted" } } :
                  \A r \in { stripe_webhook_result(svc, "ok", e, sc, ru) } :
                      /\ r.status = 200
                      /\ r.detail = "success"
                      /\ r.handler.error = ""
                      /\ r.handler.subs = subs
                      /\ r.handler.txns = txns
                      /\ r.handler.proxy = proxy
                      /\ r.handler.customers = customers
                      /\ r.handler.out = <<>>)
    /\ [][ last'.op = "stripe_webhook" => (otps' = otps /\ keys' = keys) ]_vars

\* C18 witness: a verified event was answered with success while the billing
\* provider held no session and no customer of the service, so that the only
\* event it could deliver was of a type without a handler; both phones hold
\* their rows
C18_UnknownEventServed ==
    /\ last.op = "stripe_webhook"
    /\ last.status = 200
    /\ sessions = {}
    /\ customers = 0
    /\ Cardinality(subs) = 2

\* C19: in every reachable state each phone has at most one subscription row,
\* and every row on the Free plan has no expiry.
C19_OneRowPerPhoneFreeNeverExpires ==
    /\ \A p \in Phones : Cardinality(sub_rows(subs, p)) <= 1
    /\ \A u \in subs : u.plan = "free" => u.expires_at = None

\* the proxy holds, for the key of every phone that has a subscription row,
\* the limits of the catalog plan recorded in that row
limits_in_sync(keyRows, subRows, proxyRows) ==
    \A u \in subRows, k \in keyRows, x \in proxyRows :
        (k.phone_number = u.phone_number /\ x.key = k.api_key) =>
            \A plan \in { q \in plans : q.name = u.plan } :
                /\ x.rpm_limit = plan.rpm_limit
                /\ x.tpm_limit = plan.tpm_limit
                /\ x.max_parallel_requests = plan.max_parallel_requests
                /\ x.max_budget = plan.max_budget

\* C20: with every proxy call succeeding, the proxy's limits follow the
\* subscription rows: from a state in which the limits of every key are those
\* of its phone's plan, a verification and a webhook event (checkout
\* completed, renewal, cancellation) lead to such a state again; after a
\* cancellation in particular the key's budget ceiling is that of the Free
\* plan, unlimited.
C20_ProxyLimitsFollowPlan ==
    limits_in_sync(keys, subs, proxy) =>
        /\ \A p \in Phones, c \in Codes :
              \A r \in { verify_otp_result(p, c, "200", "200") } :
                  limits_in_sync(r.keys, r.subs, r.proxy)
        /\ \A svc \in Services, e \in Events :
              \A r \in { stripe_webhook_result(svc, "ok", e, "ok", "200") } :
                  limits_in_sync(keys, r.handler.subs, r.handler.proxy)

\* the invoice the billing provider sends for a customer's renewed subscription
RenewalInvoice(customer) ==
    [ type |-> "invoice.payment_succeeded", object |-> [ customer |-> customer ] ]

\* C21: renewal reaches the paying user: once the completed checkout of a
\* session opened for billing customer C has put the phone's row on that
\* session's subscription, an invoice.payment_succeeded event for customer C
\* sets the expiry of the phone's row to the processing time plus 30 days.
C21_RenewalReachesPayingUser ==
    \A svc \in Services, s \in sessions :
        (\E u \in subs : /\ u.phone_number = s.metadata.phone_number
                         /\ u.stripe_subscription_id = Some(s.id)) =>
            \A r \in { stripe_webhook_result(svc, "ok", RenewalInvoice(s.customer),
                                             "ok", "200") } :
                \E v \in r.handler.subs :
                    /\ v.phone_number = s.metadata.phone_number
                    /\ v.expires_at = Some(now + timedelta_days(30))

\* the keys the proxy holds under a phone's alias
proxy_keys(proxyRows, phone_number) ==
    { x \in proxyRows : x.key_alias = phone_number }

\* C22: two verification requests of one phone, both holding a valid code,
\* can both pass the key lookup before either commits (each reads "no key
\* yet"): both then call the proxy's key-creation endpoint, once each, and the
\* proxy provisions two different keys under the phone's alias.
C22_ConcurrentVerificationsBothProvision ==
    \A v, w \in Workers :
        (/\ v # w
         /\ requests[v].pc = "commit"
         /\ requests[w].pc = "commit"
         /\ requests[v].phone_number = requests[w].phone_number) =>
            /\ requests[v].minted # requests[w].minted
            /\ \A u \in { v, w } :
                  /\ requests[u].calls = 1
                  /\ \E x \in proxy_keys(proxy, requests[u].phone_number) :
                        requests[u].minted = Some(x.key)
            /\ Cardinality(proxy_keys(proxy, requests[v].phone_number)) >= 2

\* C22 witness: both workers serve a request of the same phone, no key row is
\* stored for it, both have been answered by the key-creation endpoint and
\* neither has committed
C22_TwoKeysProvisioned ==
    /\ \A w \in Workers : requests[w].pc = "commit" /\ requests[w].phone_number = "p1"
    /\ key_rows(keys, "p1") = {}
    /\ Cardinality(proxy_keys(proxy, "p1")) = 2

\* C23: under every interleaving of verification requests, a phone never has
\* more than one key row (the UNIQUE constraint refuses the second INSERT at
\* commit), and a request that is answered 200 returns the api_key of the row
\* stored for its phone.
C23_ConcurrentVerificationsReturnStoredKey ==
    /\ \A p \in Phones : Cardinality(key_rows(keys, p)) <= 1
    /\ (last.op = "verify_otp" /\ last.status = 200) =>
          /\ last.api_key # None
          /\ \A k \in key_rows(keys, last.phone_number) :
                last.api_key = Some(k.api_key)
          /\ key_rows(keys, last.phone_number) # {}

\* C23 witness: the request that lost the race for a phone's row (its commit
\* was refused, its key is left at the proxy) has been answered 200 after the
\* request that won it, and no request is being served
C23_LoserAnswered ==
    /\ \A w \in Workers : requests[w] = Idle
    /\ last.op = "verify_otp"
    /\ last.status = 200
    /\ last.calls = 1
    /\ Cardinality(proxy_keys(proxy, last.phone_number)) = 2
    /\ Cardinality(key_rows(keys, last.phone_number)) = 1

\* the proxy holds, for the key of a phone, the rate limits of the catalog plan
\* recorded in the phone's subscription row
rate_limits_in_sync(phone_number) ==
    \A u \in sub_rows(subs, phone_number), k \in key_rows(keys, phone_number) :
        \A x \in { y \in proxy : y.key = k.api_key } :
            \A plan \in { q \in plans : q.name = u.plan } :
                /\ x.rpm_limit = plan.rpm_limit
                /\ x.tpm_limit = plan.tpm_limit
                /\ x.max_parallel_requests = plan.max_parallel_requests

\* C24: when a checkout.session.completed handler and a
\* customer.subscription.deleted handler of the same phone have run, one in
\* each service, both have committed and both of their proxy calls were
\* answered 200, the rate limits the proxy holds for the phone's key are those
\* of the plan recorded in the phone's committed subscription row.
C24_ConcurrentHandlersLeaveLimitsInSync ==
    \A a, b \in Services :
        (/\ handlers[a].pc = "done"
         /\ handlers[b].pc = "done"
         /\ handlers[a].type = "checkout.session.completed"
         /\ handlers[b].type = "customer.subscription.deleted"
         /\ handlers[a].phone_number = handlers[b].phone_number
         /\ handlers[a].committed /\ handlers[a].update_success
         /\ handlers[b].committed /\ handlers[b].update_success) =>
            rate_limits_in_sync(handlers[a].phone_number)

C26_CodeIsBoundToItsPhone ==
    \A p \in Phones, c \in Codes :
        \A r1 \in first_generate_outcomes(p, c) :
            \A r2 \in second_generate_outcomes(p, c, r1) :
                \A r \in { verify_otp_result(p, c, r1, r2) } :
                    /\ r.api_key # None =>
                          /\ r.status = 200
                          /\ \E o \in otps :
                                /\ o.phone_number = p
                                /\ o.otp_code = c
                                /\ now - (o.expires_at - OTP_TTL_MINUTES) < 5
                          /\ \E k \in r.keys : /\ k.phone_number = p
                                               /\ r.api_key = Some(k.api_key)
                          /\ \A k \in r.keys :
                                r.api_key = Some(k.api_key) => k.phone_number = p
                    /\ (\A o \in otps : o.otp_code = c => o.phone_number # p) =>
                          /\ r.status # 200
                          /\ r.api_key = None
                          /\ r.keys = keys
                          /\ r.out = <<>>

\* C26 witness: a phone submitted the code that was issued, within its five
\* minutes, to the other phone only, and was refused
C26_OtherPhonesCodeRefused ==
    /\ last.op = "verify_otp"
    /\ last.status # 200
    /\ challenges(last.phone_number, last.otp_code) = {}
    /\ \E o \in otps : /\ o.otp_code = last.otp_code
                       /\ o.phone_number # last.phone_number
                       /\ now < o.expires_at
    /\ \E k \in keys : k.phone_number # last.phone_number

\* C27: every key-update payload of a limit push carries the plan's rpm_limit,
\* tpm_limit and max_parallel_requests and budget_duration "30d", and carries
\* the max_budget field exactly when the plan has a budget ceiling; for the
\* Free plan, which has none, the field is absent.
C27_PushOmitsBudgetWithoutCeiling ==
    \A svc \in Services, t \in PlanType, k \in keys :
        \A r \in { update_litellm_api_key(svc, k.phone_number, PLAN_CONFIGS(svc)[t],
                                          TRUE, proxy, "200") } :
            /\ Len(r.out) = 1
            /\ \A i \in DOMAIN r.out :
                  \A plan \in { q \in plans : q.name = t } :
                      LET payload == r.out[i].payload
                      IN  /\ payload.key = k.api_key
                          /\ payload.rpm_limit = plan.rpm_limit
                          /\ payload.tpm_limit = plan.tpm_limit
                          /\ payload.max_parallel_requests = plan.max_parallel_requests
                          /\ payload.budget_duration = "30d"
                          /\ "max_budget" \in DOMAIN payload <=> plan.max_budget # None
                          /\ "max_budget" \in DOMAIN payload =>
                                payload.max_budget = plan.max_budget
                          /\ t = "free" => "max_budget" \notin DOMAIN payload

\* C28: a limit push for a phone that has no key row returns false, makes no
\* call to the proxy and raises nothing (an error of its key query is caught
\* inside); for a phone with a key it makes one key-update call and returns
\* true exactly when that call is answered 200, false on another status and
\* on a request exception.
C28_PushReportsTheProxysAnswer ==
    \A svc \in Services, p \in Phones :
        /\ \A r \in { update_litellm_api_key(svc, p, PLAN_CONFIGS(svc).basic, FALSE,
                                             proxy, "200") } :
              r.success = FALSE /\ r.out = <<>> /\ r.proxy = proxy
        /\ \A ru \in ProxyOutcomes :
              \A r \in { update_litellm_api_key(svc, p, PLAN_CONFIGS(svc).free, TRUE,
                                                proxy, ru) } :
                  IF key_rows(keys, p) = {}
                  THEN r.success = FALSE /\ r.out = <<>> /\ r.proxy = proxy
                  ELSE /\ Len(r.out) = 1
                       /\ r.out[1].api = "key/update"
                       /\ r.success <=> ru = "200"
                       /\ ru # "200" => r.proxy = proxy

\* C28 witness: a completed checkout ran its push for a phone that has no key
\* row; the push returned false and the event was acknowledged
C28_PushWithoutKey ==
    /\ last.op = "stripe_webhook"
    /\ last.status = 200
    /\ last.error = "IntegrityError"
    /\ \E s \in sessions : key_rows(keys, s.metadata.phone_number) = {}
    /\ keys # {}

\* C29: seeding is idempotent and the catalog is fixed: every run of a
\* service's startup seeding leaves exactly one row for each of free, basic,
\* pro and premium, the Free row without a budget, and a run on a seeded
\* catalog changes nothing; no other step adds, removes or changes a plan row.
C29_SeedingYieldsFixedCatalog ==
    /\ [][ (last'.op = "startup" /\ last'.status = 200) =>
              /\ { q.name : q \in plans' } = PlanType
              /\ \A t \in PlanType : Cardinality({ q \in plans' : q.name = t }) = 1
              /\ \A q \in plans' : q.name = "free" => q.max_budget = None
              /\ plans # {} => plans' = plans ]_vars
    /\ [][ last'.op # "startup" => plans' = plans ]_vars

\* C30: the two modules are interchangeable for the push: for each plan and
\* each phone with a key, payment_service's update_litellm_api_key sends the
\* payload main's sends (same fields, same values) and leaves the proxy with
\* the same limits.
C30_ModulesPushTheSamePayload ==
    \A t \in PlanType, k \in keys :
        \A m \in { update_litellm_api_key("main", k.phone_number,
                                          PLAN_CONFIGS("main")[t], TRUE, proxy, "200") } :
            \A s \in { update_litellm_api_key("payment", k.phone_number,
                                              PLAN_CONFIGS("payment")[t], TRUE, proxy,
                                              "200") } :
                /\ Len(m.out) = 1 /\ Len(s.out) = 1
                /\ s.out[1].payload = m.out[1].payload
                /\ s.proxy = m.proxy

====
